---------------------------- MODULE Spec2Model ----------------------------
(***************************************************************************)
(* Furniture-component classification of orca-interiores (AIAnalyzer).     *)
(*                                                                         *)
(* Number representation.  The source computes with Python floats; the     *)
(* model computes with exact integers in fixed units:                      *)
(*   - a confidence, a weight and the bonus factor are in units of 1/10000 *)
(*     (Pct(95) is 0.95), and Mul is the fixed-point product;              *)
(*   - a length is in millimetres (0.06 m is 60);                          *)
(*   - an area is in units of 0.0001 m2 (0.18 m2 is 1800);                 *)
(*   - a ratio range of the knowledge base is in thousandths, and a ratio  *)
(*     a/b is compared with it by cross-multiplication.                    *)
(* Every product formed on the values the scorers can return is exact in   *)
(* these units.  In floats 3 * 0.3 and 6 * 0.15 are 0.8999999999999999;    *)
(* the field confianca has 0.9 there and ConfiancaFloat the double, and no *)
(* comparison between the weighted scores of two different scorers comes   *)
(* out differently in floats.                                              *)
(***************************************************************************)
EXTENDS Integers, Sequences, FiniteSets, TLC

VARIABLES
    componente,     \* the component dict handed to analyze_component
    resultado,      \* the dict analyze_component returned for it
    arquivo,        \* the upload: nome_arquivo and the decoded conteudo
    basico,         \* the resultado_basico handed to _aplicar_analise_ia
    retorno,        \* the dict the file analysis returned
    grupos,         \* the calls of _processar_componente, in order
    classificados,  \* the calls of analyze_component, in order
    lote,           \* the component list handed to analyze_batch
    relatorio,      \* the dict analyze_batch returned for it
    analisador,     \* the AIAnalyzer object: its two tables
    chamadas        \* the calls made on the AIAnalyzer object, in order

vars ==
    <<componente, resultado, arquivo, basico, retorno, grupos,
      classificados, lote, relatorio, analisador, chamadas>>

Pct(p) == p * 100

Mul(a, b) == (a * b) \div Pct(100)

Min(a, b) == IF a <= b THEN a ELSE b

(***************************************************************************)
(* self.knowledge_base, in insertion order (the order dict.items() walks). *)
(***************************************************************************)
knowledge_base ==
    << [tipo |-> "armario",
        palavras_chave |-> <<"armario", "cabinet", "wardrobe", "closet",
                             "guarda", "superior", "inferior">>,
        largura |-> <<300, 1200>>, altura |-> <<600, 2400>>,
        profundidade |-> <<300, 600>>,
        area_tipica |-> <<1800, 28800>>,
        altura_largura |-> <<500, 8000>>,
        profundidade_largura |-> <<250, 2000>>],
       [tipo |-> "despenseiro",
        palavras_chave |-> <<"despenseiro", "pantry", "coluna", "torre",
                             "alto", "vertical">>,
        largura |-> <<400, 800>>, altura |-> <<1800, 2400>>,
        profundidade |-> <<400, 600>>,
        area_tipica |-> <<1600, 19200>>,
        altura_largura |-> <<2250, 6000>>,
        profundidade_largura |-> <<500, 1500>>],
       [tipo |-> "balcao",
        palavras_chave |-> <<"balcao", "counter", "base", "inferior",
                             "bancada", "pia">>,
        largura |-> <<400, 3000>>, altura |-> <<800, 950>>,
        profundidade |-> <<500, 650>>,
        area_tipica |-> <<2000, 19500>>,
        altura_largura |-> <<270, 2380>>,
        profundidade_largura |-> <<170, 1630>>],
       [tipo |-> "gaveteiro",
        palavras_chave |-> <<"gaveteiro", "drawer", "gaveta", "chest",
                             "caixa">>,
        largura |-> <<300, 800>>, altura |-> <<600, 1200>>,
        profundidade |-> <<400, 600>>,
        area_tipica |-> <<1200, 9600>>,
        altura_largura |-> <<750, 4000>>,
        profundidade_largura |-> <<500, 2000>>],
       [tipo |-> "prateleira",
        palavras_chave |-> <<"prateleira", "shelf", "estante", "divider",
                             "divisoria">>,
        largura |-> <<300, 1500>>, altura |-> <<20, 50>>,
        profundidade |-> <<250, 500>>,
        area_tipica |-> <<750, 7500>>,
        altura_largura |-> <<13, 167>>,
        profundidade_largura |-> <<170, 1670>>],
       [tipo |-> "porta",
        palavras_chave |-> <<"porta", "door", "folha", "leaf", "frente">>,
        largura |-> <<300, 800>>, altura |-> <<600, 2200>>,
        profundidade |-> <<15, 25>>,
        area_tipica |-> <<1800, 17600>>,
        altura_largura |-> <<750, 7330>>,
        profundidade_largura |-> <<19, 83>>] >>

(***************************************************************************)
(* self.elementos_nao_marcenaria, in insertion order.                      *)
(***************************************************************************)
elementos_nao_marcenaria ==
    << [categoria |-> "parede",
        palavras |-> <<"wall", "parede", "muro", "divisoria_alvenaria">>],
       [categoria |-> "piso",
        palavras |-> <<"floor", "piso", "chao", "pavimento">>],
       [categoria |-> "teto",
        palavras |-> <<"ceiling", "teto", "forro", "laje">>],
       [categoria |-> "eletrodomestico",
        palavras |-> <<"geladeira", "fogao", "microondas", "lava", "seca",
                       "refrigerator", "stove">>],
       [categoria |-> "estrutura",
        palavras |-> <<"viga", "pilar", "coluna_estrutural", "beam",
                       "column">>],
       [categoria |-> "decoracao",
        palavras |-> <<"quadro", "vaso", "luminaria", "lamp",
                       "decoration">>] >>

\* the object after __init__
AIAnalyzer ==
    [knowledge_base |-> knowledge_base,
     elementos_nao_marcenaria |-> elementos_nao_marcenaria]

(***************************************************************************)
(* Strings: `palavra in nome` (substring test) and str.lower().            *)
(***************************************************************************)
Contains(nome, palavra) ==
    \E i \in 1..(Len(nome) - Len(palavra) + 1) :
        SubSeq(nome, i, i + Len(palavra) - 1) = palavra

LowerChar(c) ==
    CASE c = "A" -> "a" [] c = "B" -> "b" [] c = "C" -> "c" [] c = "D" -> "d"
      [] c = "E" -> "e" [] c = "F" -> "f" [] c = "G" -> "g" [] c = "H" -> "h"
      [] c = "I" -> "i" [] c = "J" -> "j" [] c = "K" -> "k" [] c = "L" -> "l"
      [] c = "M" -> "m" [] c = "N" -> "n" [] c = "O" -> "o" [] c = "P" -> "p"
      [] c = "Q" -> "q" [] c = "R" -> "r" [] c = "S" -> "s" [] c = "T" -> "t"
      [] c = "U" -> "u" [] c = "V" -> "v" [] c = "W" -> "w" [] c = "X" -> "x"
      [] c = "Y" -> "y" [] c = "Z" -> "z" [] OTHER -> c

RECURSIVE Lower(_)
Lower(s) ==
    IF Len(s) = 0 THEN ""
    ELSE LowerChar(SubSeq(s, 1, 1)) \o Lower(SubSeq(s, 2, Len(s)))

(***************************************************************************)
(* _analisar_semantica                                                     *)
(***************************************************************************)
NoMatch == [tipo |-> "None"]

\* the keywords of one list that occur in nome, in list order
RECURSIVE Encontradas(_, _, _)
Encontradas(nome, palavras, k) ==
    IF k > Len(palavras) THEN << >>
    ELSE (IF Contains(nome, palavras[k]) THEN <<palavras[k]>> ELSE << >>)
         \o Encontradas(nome, palavras, k + 1)

\* the first loop: the first (categoria, palavra) found, walking categories
\* and their words in order; NoMatch when the loop falls through
RECURSIVE PrimeiroNaoMarcenaria(_, _)
PrimeiroNaoMarcenaria(nome, i) ==
    IF i > Len(elementos_nao_marcenaria) THEN NoMatch
    ELSE LET e == elementos_nao_marcenaria[i]
             achadas == Encontradas(nome, e.palavras, 1)
         IN  IF Len(achadas) > 0
             THEN [tipo |-> "nao_marcenaria",
                   confianca |-> Pct(95),
                   motivo |-> <<"Nome contem", achadas[1], e.categoria>>]
             ELSE PrimeiroNaoMarcenaria(nome, i + 1)

ConfiancaSemantica_SemTeto(score) == score * Pct(30)

\* min(0.9, score * 0.3)
ConfiancaSemantica(score) == Min(Pct(90), score * Pct(30))

SuperaSemantico_MaiorOuIgual(score, melhor_score) == score >= melhor_score

\* `if score > melhor_score` of the semantic loop
SuperaSemantico(score, melhor_score) == score > melhor_score

\* the second loop, from knowledge-base entry i on
RECURSIVE MelhorSemantico(_, _, _, _)
MelhorSemantico(nome, i, melhor_match, melhor_score) ==
    IF i > Len(knowledge_base) THEN melhor_match
    ELSE LET dados == knowledge_base[i]
             palavras_encontradas == Encontradas(nome, dados.palavras_chave, 1)
             score == Len(palavras_encontradas)
         IN  IF SuperaSemantico(score, melhor_score)
             THEN MelhorSemantico(nome, i + 1,
                      [tipo |-> dados.tipo,
                       confianca |-> ConfiancaSemantica(score),
                       motivo |-> <<"Nome contem palavras-chave">>,
                       palavras_encontradas |-> palavras_encontradas],
                      score)
             ELSE MelhorSemantico(nome, i + 1, melhor_match, melhor_score)

_analisar_semantica(nome) ==
    LET nao == PrimeiroNaoMarcenaria(nome, 1)
        melhor_match == MelhorSemantico(nome, 1, NoMatch, 0)
    IN  IF nao.tipo # "None" THEN nao
        ELSE IF melhor_match.tipo # "None" THEN melhor_match
        ELSE [tipo |-> "indefinido",
              confianca |-> Pct(10),
              motivo |-> <<"Nome nao contem palavras-chave reconhecidas">>]

(***************************************************************************)
(* dict.get(key, 0) on the dimensoes dict; an empty dict is falsy.         *)
(***************************************************************************)
Get(dimensoes, chave) ==
    IF chave \in DOMAIN dimensoes THEN dimensoes[chave] ELSE 0

Vazio(dimensoes) == DOMAIN dimensoes = {}

(***************************************************************************)
(* _analisar_geometria.  proporcoes holds each ratio unevaluated:          *)
(* <<a, b>> is a / b and <<a, l, h, p>> is a / (l * h * p).                *)
(***************************************************************************)
PadraoGeometrico_PortaPrimeiro(largura, altura, profundidade, area_m2) ==
    IF profundidade < 30
    THEN [tipo |-> "porta", confianca |-> Pct(80),
          motivo |-> <<"Muito fina (profundidade)">>]
    ELSE IF altura < 60
    THEN [tipo |-> "prateleira", confianca |-> Pct(85),
          motivo |-> <<"Muito fina (altura)">>]
    ELSE IF altura * 10 > 25 * largura
    THEN [tipo |-> "despenseiro", confianca |-> Pct(75),
          motivo |-> <<"Proporcao alta">>]
    ELSE IF altura < 1000 /\ largura > 1000
    THEN [tipo |-> "balcao", confianca |-> Pct(70),
          motivo |-> <<"Baixo e comprido">>]
    ELSE IF area_m2 > 100000
    THEN [tipo |-> "nao_marcenaria", confianca |-> Pct(90),
          motivo |-> <<"Area muito grande">>]
    ELSE [tipo |-> "armario", confianca |-> Pct(40),
          motivo |-> <<"Padrao geometrico de armario">>]

\* the ordered pattern rules, applied to positive dimensions
PadraoGeometrico(largura, altura, profundidade, area_m2) ==
    IF altura < 60
    THEN [tipo |-> "prateleira", confianca |-> Pct(85),
          motivo |-> <<"Muito fina (altura)">>]
    ELSE IF profundidade < 30
    THEN [tipo |-> "porta", confianca |-> Pct(80),
          motivo |-> <<"Muito fina (profundidade)">>]
    ELSE IF altura * 10 > 25 * largura
    THEN [tipo |-> "despenseiro", confianca |-> Pct(75),
          motivo |-> <<"Proporcao alta">>]
    ELSE IF altura < 1000 /\ largura > 1000
    THEN [tipo |-> "balcao", confianca |-> Pct(70),
          motivo |-> <<"Baixo e comprido">>]
    ELSE IF area_m2 > 100000
    THEN [tipo |-> "nao_marcenaria", confianca |-> Pct(90),
          motivo |-> <<"Area muito grande">>]
    ELSE [tipo |-> "armario", confianca |-> Pct(40),
          motivo |-> <<"Padrao geometrico de armario">>]

_analisar_geometria(dimensoes, area_m2) ==
    LET largura == Get(dimensoes, "largura")
        altura == Get(dimensoes, "altura")
        profundidade == Get(dimensoes, "profundidade")
        proporcoes == [altura_largura |-> <<altura, largura>>,
                       profundidade_largura |-> <<profundidade, largura>>,
                       area_volume |-> <<area_m2, largura, altura, profundidade>>]
        padrao == PadraoGeometrico(largura, altura, profundidade, area_m2)
    IN  IF Vazio(dimensoes) \/ area_m2 <= 0
        THEN [tipo |-> "invalido", confianca |-> 0,
              motivo |-> <<"Dimensoes invalidas ou area zero">>]
        ELSE IF largura <= 0 \/ altura <= 0 \/ profundidade <= 0
        THEN [tipo |-> "invalido", confianca |-> 0,
              motivo |-> <<"Uma ou mais dimensoes sao zero ou negativas">>]
        ELSE [tipo |-> padrao.tipo, confianca |-> padrao.confianca,
              motivo |-> padrao.motivo, proporcoes |-> proporcoes]

(***************************************************************************)
(* _analisar_dimensoes                                                     *)
(***************************************************************************)
NaFaixa_Exclusiva(faixa, x) == faixa[1] < x /\ x < faixa[2]

\* lo <= x <= hi
NaFaixa(faixa, x) == faixa[1] <= x /\ x <= faixa[2]

\* lo <= num/den <= hi for den > 0, the range being in thousandths
RazaoNaFaixa(faixa, num, den) ==
    faixa[1] * den <= num * 1000 /\ num * 1000 <= faixa[2] * den

\* the checks of one knowledge-base entry that pass, in the order made
MotivosDimensionais(dados, largura, altura, profundidade, area_m2) ==
    (IF NaFaixa(dados.largura, largura) THEN <<"largura">> ELSE << >>)
    \o (IF NaFaixa(dados.altura, altura) THEN <<"altura">> ELSE << >>)
    \o (IF NaFaixa(dados.profundidade, profundidade)
        THEN <<"profundidade">> ELSE << >>)
    \o (IF NaFaixa(dados.area_tipica, area_m2) THEN <<"area">> ELSE << >>)
    \o (IF altura > 0 /\ largura > 0
           /\ RazaoNaFaixa(dados.altura_largura, altura, largura)
        THEN <<"altura/largura">> ELSE << >>)
    \o (IF profundidade > 0 /\ largura > 0
           /\ RazaoNaFaixa(dados.profundidade_largura, profundidade, largura)
        THEN <<"profundidade/largura">> ELSE << >>)

\* min(0.95, score * 0.15)
ConfiancaDimensional(score) == Min(Pct(95), score * Pct(15))

\* `if score > melhor_score` of the dimensional loop
SuperaDimensional(score, melhor_score) == score > melhor_score

RECURSIVE MelhorDimensional(_, _, _, _, _, _, _)
MelhorDimensional(largura, altura, profundidade, area_m2, i, melhor_match, melhor_score) ==
    IF i > Len(knowledge_base) THEN melhor_match
    ELSE LET dados == knowledge_base[i]
             motivos == MotivosDimensionais(dados, largura, altura,
                                            profundidade, area_m2)
             score == Len(motivos)
         IN  IF SuperaDimensional(score, melhor_score)
             THEN MelhorDimensional(largura, altura, profundidade, area_m2,
                      i + 1,
                      [tipo |-> dados.tipo,
                       confianca |-> ConfiancaDimensional(score),
                       motivo |-> <<"Dimensoes compativeis">>,
                       score_dimensional |-> score,
                       motivos_detalhados |-> motivos],
                      score)
             ELSE MelhorDimensional(largura, altura, profundidade, area_m2,
                      i + 1, melhor_match, melhor_score)

_analisar_dimensoes(dimensoes, area_m2) ==
    LET largura == Get(dimensoes, "largura")
        altura == Get(dimensoes, "altura")
        profundidade == Get(dimensoes, "profundidade")
        melhor_match == MelhorDimensional(largura, altura, profundidade,
                                          area_m2, 1, NoMatch, 0)
    IN  IF Vazio(dimensoes)
        THEN [tipo |-> "indefinido", confianca |-> 0,
              motivo |-> <<"Dimensoes nao disponiveis">>]
        ELSE IF melhor_match.tipo # "None" THEN melhor_match
        ELSE [tipo |-> "indefinido", confianca |-> Pct(20),
              motivo |-> <<"Dimensoes nao correspondem a nenhum tipo conhecido">>]

(***************************************************************************)
(* _combinar_analises                                                      *)
(***************************************************************************)
peso_semantico_Alto == Pct(70)

peso_semantico == Pct(40)

peso_geometrico == Pct(30)

peso_dimensional == Pct(30)

NaoCandidato_SoInvalidos == {"invalido", "indefinido"}

\* the types the fusion keeps out of candidatos
NaoCandidato == {"nao_marcenaria", "invalido", "indefinido"}

SemanticoNaoMarcenaria_LimiarAlto(semantico) ==
    semantico.tipo = "nao_marcenaria" /\ semantico.confianca > Pct(95)

\* the first guard: a high-confidence semantic non-furniture verdict
SemanticoNaoMarcenaria(semantico) ==
    semantico.tipo = "nao_marcenaria" /\ semantico.confianca > Pct(80)

GeometricoInvalido_OutroRotulo(geometrico) == geometrico.tipo = "invalid"

\* the second guard
GeometricoInvalido(geometrico) == geometrico.tipo = "invalido"

\* candidatos, in the order the three appends are made
Candidatos(semantico, geometrico, dimensional) ==
    (IF semantico.tipo \notin NaoCandidato
     THEN <<[tipo |-> semantico.tipo,
             score |-> Mul(semantico.confianca, peso_semantico),
             origem |-> "semantica"]>>
     ELSE << >>)
    \o (IF geometrico.tipo \notin NaoCandidato
        THEN <<[tipo |-> geometrico.tipo,
                score |-> Mul(geometrico.confianca, peso_geometrico),
                origem |-> "geometrica"]>>
        ELSE << >>)
    \o (IF dimensional.tipo \notin NaoCandidato
        THEN <<[tipo |-> dimensional.tipo,
                score |-> Mul(dimensional.confianca, peso_dimensional),
                origem |-> "dimensional"]>>
        ELSE << >>)

MaxPorScore_Ultimo(candidatos) ==
    LET i == CHOOSE i \in 1..Len(candidatos) :
                 /\ \A j \in 1..Len(candidatos) :
                        candidatos[j].score <= candidatos[i].score
                 /\ \A j \in (i + 1)..Len(candidatos) :
                        candidatos[j].score < candidatos[i].score
    IN  candidatos[i]

\* max(candidatos, key=score): the first element of maximal score
MaxPorScore(candidatos) ==
    LET i == CHOOSE i \in 1..Len(candidatos) :
                 /\ \A j \in 1..Len(candidatos) :
                        candidatos[j].score <= candidatos[i].score
                 /\ \A j \in 1..(i - 1) :
                        candidatos[j].score < candidatos[i].score
    IN  candidatos[i]

\* [c['tipo'] for c in candidatos if c['tipo'] != tipo]
RECURSIVE TiposDiferentes(_, _, _)
TiposDiferentes(candidatos, tipo, k) ==
    IF k > Len(candidatos) THEN << >>
    ELSE (IF candidatos[k].tipo # tipo THEN <<candidatos[k].tipo>> ELSE << >>)
         \o TiposDiferentes(candidatos, tipo, k + 1)

ConfiancaFinal_SoComTresCandidatos(candidatos) ==
    LET melhor_candidato == MaxPorScore(candidatos)
        tipos_detectados == {candidatos[k].tipo : k \in 1..Len(candidatos)}
    IN  IF Cardinality(tipos_detectados) = 1 /\ Len(candidatos) = 3
        THEN Min(Pct(95), Mul(melhor_candidato.score, Pct(130)))
        ELSE melhor_candidato.score

\* confianca_final, with the bonus of `len(set(tipos_detectados)) == 1`
ConfiancaFinal(candidatos) ==
    LET melhor_candidato == MaxPorScore(candidatos)
        tipos_detectados == {candidatos[k].tipo : k \in 1..Len(candidatos)}
    IN  IF Cardinality(tipos_detectados) = 1
        THEN Min(Pct(95), Mul(melhor_candidato.score, Pct(130)))
        ELSE melhor_candidato.score

_combinar_analises(semantico, geometrico, dimensional) ==
    LET detalhes == [semantico |-> semantico, geometrico |-> geometrico,
                     dimensional |-> dimensional]
        candidatos == Candidatos(semantico, geometrico, dimensional)
    IN  IF SemanticoNaoMarcenaria(semantico)
        THEN [tipo_detectado |-> "nao_marcenaria",
              confianca |-> semantico.confianca,
              motivo |-> <<"Analise semantica">> \o semantico.motivo,
              sugestoes |-> <<"Remover este elemento do arquivo SketchUp">>,
              alternativas |-> << >>,
              detalhes |-> detalhes]
        ELSE IF GeometricoInvalido(geometrico)
        THEN [tipo_detectado |-> "invalido",
              confianca |-> 0,
              motivo |-> <<"Analise geometrica">> \o geometrico.motivo,
              sugestoes |-> <<"Verificar geometria do componente">>,
              alternativas |-> << >>,
              detalhes |-> detalhes]
        ELSE IF Len(candidatos) = 0
        THEN [tipo_detectado |-> "indefinido",
              confianca |-> Pct(10),
              motivo |-> <<"Nenhuma analise produziu resultado valido">>,
              sugestoes |-> <<"Verificar nome e dimensoes do componente">>,
              alternativas |-> << >>,
              detalhes |-> detalhes]
        ELSE LET melhor_candidato == MaxPorScore(candidatos)
                 confianca_final == ConfiancaFinal(candidatos)
                 motivos ==
                     (IF semantico.tipo = melhor_candidato.tipo
                      THEN <<"Semantica">> ELSE << >>)
                     \o (IF geometrico.tipo = melhor_candidato.tipo
                         THEN <<"Geometria">> ELSE << >>)
                     \o (IF dimensional.tipo = melhor_candidato.tipo
                         THEN <<"Dimensoes">> ELSE << >>)
                 sugestoes ==
                     (IF confianca_final < Pct(50)
                      THEN <<"Baixa confianca - revisar manualmente">>
                      ELSE << >>)
                     \o (IF semantico.tipo = "indefinido"
                         THEN <<"Usar nome mais descritivo no SketchUp">>
                         ELSE << >>)
                     \o (IF dimensional.tipo = "indefinido"
                         THEN <<"Verificar se dimensoes estao realistas">>
                         ELSE << >>)
             IN  [tipo_detectado |-> melhor_candidato.tipo,
                  confianca |-> confianca_final,
                  motivo |-> motivos,
                  sugestoes |-> sugestoes,
                  alternativas |-> TiposDiferentes(candidatos,
                                       melhor_candidato.tipo, 1),
                  detalhes |-> detalhes]

analyze_component_SemLower(c) ==
    LET nome == c.nome
        resultado_semantico == _analisar_semantica(nome)
        resultado_geometrico == _analisar_geometria(c.dimensoes, c.area_m2)
        resultado_dimensional == _analisar_dimensoes(c.dimensoes, c.area_m2)
    IN  _combinar_analises(resultado_semantico, resultado_geometrico,
                           resultado_dimensional)

(***************************************************************************)
(* A component dict may hold None under a key; the record then lists the   *)
(* key in its field nulos.  Excecao is the exception the body of           *)
(* analyze_component raises on such a component: None has no lower(), and  *)
(* None is not ordered against 0 in the area test of _analisar_geometria,  *)
(* which is reached when dimensoes is not empty.                           *)
(***************************************************************************)
SemExcecao == ""

Nulos(c) == IF "nulos" \in DOMAIN c THEN c.nulos ELSE {}

Excecao_Nenhuma(c) == SemExcecao

Excecao(c) ==
    IF "nome" \in Nulos(c)
    THEN "'NoneType' object has no attribute 'lower'"
    ELSE IF "area_m2" \in Nulos(c) /\ c.dimensoes # [chave \in {} |-> 0]
    THEN "'<=' not supported between instances of 'NoneType' and 'int'"
    ELSE SemExcecao

(***************************************************************************)
(* analyze_component: the three scorers on the component's lowercased      *)
(* name, dimensions and area, then the fusion; any exception raised on the *)
(* way becomes the sentinel dict of the except branch.                     *)
(***************************************************************************)
analyze_component(c) ==
    IF Excecao(c) # SemExcecao
    THEN [tipo_detectado |-> "erro",
          confianca |-> 0,
          motivo |-> "Erro na analise: " \o Excecao(c),
          sugestoes |-> <<"Verificar dados do componente">>,
          alternativas |-> <<>>]
    ELSE
    LET nome == Lower(c.nome)
        resultado_semantico == _analisar_semantica(nome)
        resultado_geometrico == _analisar_geometria(c.dimensoes, c.area_m2)
        resultado_dimensional == _analisar_dimensoes(c.dimensoes, c.area_m2)
    IN  _combinar_analises(resultado_semantico, resultado_geometrico,
                           resultado_dimensional)

(***************************************************************************)
(* FileAnalyzer (file_analyzer.py).                                        *)
(*                                                                         *)
(* The decoded conteudo is a sequence of lines, each already stripped:     *)
(*   [t |-> "v", coords |-> <<x, y, z>>]   a vertex line, the numbers the  *)
(*                                         coordinate regex finds, in mm;  *)
(*   [t |-> "o", resto |-> s], t "g"       an object or group line;        *)
(*   [t |-> "f", resto |-> s]              a face line;                    *)
(*   [t |-> "geometry", id |-> s, floats |-> <<...>>]                      *)
(*                                         a COLLADA geometry element with *)
(*                                         its float_array;                *)
(*   [t |-> "", resto |-> s]               any other line.                 *)
(* Texto is the text of a line and ConteudoTexto the text of the file.     *)
(* Coordinates are whole millimetres, so a bounding-box side in metres     *)
(* rounded to 3 places is the side itself; an area is rounded from mm2 to  *)
(* units of 0.0001 m2.                                                     *)
(***************************************************************************)
area_minima == 10000

area_maxima == 25000000

RECURSIVE Juntar(_, _)
Juntar(partes, separador) ==
    IF Len(partes) = 0 THEN ""
    ELSE IF Len(partes) = 1 THEN partes[1]
    ELSE partes[1] \o separador \o Juntar(Tail(partes), separador)

Numeros(coords) == Juntar([i \in 1..Len(coords) |-> ToString(coords[i])], " ")

Texto(linha) ==
    CASE linha.t = "v" -> "v " \o Numeros(linha.coords)
      [] linha.t \in {"o", "g", "f"} ->
            IF linha.resto = "" THEN linha.t ELSE linha.t \o " " \o linha.resto
      [] linha.t = "geometry" ->
            "<geometry id=\"" \o linha.id \o "\"><mesh><float_array count=\""
            \o ToString(Len(linha.floats)) \o "\">" \o Numeros(linha.floats)
            \o "</float_array></mesh></geometry>"
      [] OTHER -> linha.resto

ConteudoTexto(conteudo) ==
    Juntar([i \in 1..Len(conteudo) |-> Texto(conteudo[i])], "\n")

StartsWith(s, prefixo) ==
    /\ Len(s) >= Len(prefixo)
    /\ SubSeq(s, 1, Len(prefixo)) = prefixo

(***************************************************************************)
(* nome_arquivo.lower().split('.')[-1]: what follows the last dot, or the  *)
(* whole name when it has none.                                            *)
(***************************************************************************)
RECURSIVE UltimoSegmento(_)
UltimoSegmento(s) ==
    IF \E i \in 1..Len(s) : SubSeq(s, i, i) = "."
    THEN LET i == CHOOSE j \in 1..Len(s) : SubSeq(s, j, j) = "."
         IN  UltimoSegmento(SubSeq(s, i + 1, Len(s)))
    ELSE s

(***************************************************************************)
(* re.search(r'^v\s+', conteudo, re.MULTILINE): a "v" at the start of the  *)
(* text or right after a newline, followed by a whitespace character.      *)
(***************************************************************************)
Espacos == {" ", "\t", "\n", "\r"}

LinhaDeVertice_SoNoInicio(texto) ==
    /\ Len(texto) >= 2
    /\ SubSeq(texto, 1, 1) = "v"
    /\ SubSeq(texto, 2, 2) \in Espacos

LinhaDeVertice(texto) ==
    \E i \in 1..(Len(texto) - 1) :
        /\ SubSeq(texto, i, i) = "v"
        /\ SubSeq(texto, i + 1, i + 1) \in Espacos
        /\ (i = 1 \/ SubSeq(texto, i - 1, i - 1) = "\n")

PlyNoInicio_SemLimite(texto) == Contains(Lower(texto), "ply")

PlyNoInicio(texto) ==
    Contains(Lower(SubSeq(texto, 1, Min(100, Len(texto)))), "ply")

FormatoPorConteudo(texto) ==
    IF Contains(texto, "COLLADA") \/ Contains(texto, "<geometry") THEN "dae"
    ELSE IF StartsWith(texto, "solid ") \/ Contains(texto, "facet normal")
    THEN "stl"
    ELSE IF PlyNoInicio(texto) THEN "ply"
    ELSE IF LinhaDeVertice(texto) THEN "obj"
    ELSE "desconhecido"

_detectar_formato(nome_arquivo, conteudo) ==
    LET extensao == UltimoSegmento(Lower(nome_arquivo))
    IN  IF extensao = "obj" THEN "obj"
        ELSE IF extensao \in {"dae", "collada"} THEN "dae"
        ELSE IF extensao = "stl" THEN "stl"
        ELSE IF extensao = "ply" THEN "ply"
        ELSE FormatoPorConteudo(ConteudoTexto(conteudo))

(***************************************************************************)
(* _classificar_por_nome: the first type of the table, in its order, one   *)
(* of whose words is in the lowercased name; then the non-furniture words; *)
(* 'armario' when nothing matches.                                         *)
(***************************************************************************)
classificacoes ==
    << [tipo |-> "armario",
        palavras |-> <<"armario", "cabinet", "wardrobe", "closet", "guarda">>],
       [tipo |-> "despenseiro",
        palavras |-> <<"despenseiro", "pantry", "coluna", "torre", "alto">>],
       [tipo |-> "balcao",
        palavras |-> <<"balcao", "counter", "base", "inferior", "bancada">>],
       [tipo |-> "gaveteiro",
        palavras |-> <<"gaveteiro", "drawer", "gaveta", "chest">>],
       [tipo |-> "prateleira",
        palavras |-> <<"prateleira", "shelf", "estante", "divider">>],
       [tipo |-> "porta",
        palavras |-> <<"porta", "door", "folha", "leaf">>],
       [tipo |-> "gaveta",
        palavras |-> <<"gaveta", "drawer", "box", "caixa">>] >>

nao_marcenaria ==
    <<"wall", "parede", "floor", "piso", "ceiling", "teto", "window",
      "janela", "geladeira", "fogao", "pia">>

AlgumaPalavra(palavras, nome_lower) ==
    \E i \in 1..Len(palavras) : Contains(nome_lower, palavras[i])

_classificar_por_nome_PelaSemantica(nome) == _analisar_semantica(Lower(nome)).tipo

_classificar_por_nome(nome) ==
    LET nome_lower == Lower(nome)
        achados == {i \in 1..Len(classificacoes) :
                       AlgumaPalavra(classificacoes[i].palavras, nome_lower)}
    IN  IF achados # {}
        THEN classificacoes[CHOOSE i \in achados :
                               \A j \in achados : i <= j].tipo
        ELSE IF AlgumaPalavra(nao_marcenaria, nome_lower)
        THEN "nao_marcenaria"
        ELSE "armario"

(***************************************************************************)
(* _processar_componente: the bounding box of the vertices, the largest of *)
(* its three faces as the area, None for fewer than 3 vertices or an area  *)
(* outside [area_minima, area_maxima].                                     *)
(***************************************************************************)
NoComponente == [nome |-> "None", none |-> TRUE]

MinDe(S) == CHOOSE m \in S : \A x \in S : m <= x

MaxDe(S) == CHOOSE m \in S : \A x \in S : m >= x

Eixo(vertices, k) == {vertices[i][k] : i \in 1..Len(vertices)}

Extensao(vertices, k) == MaxDe(Eixo(vertices, k)) - MinDe(Eixo(vertices, k))

RECURSIVE Soma(_, _)
Soma(vertices, k) ==
    IF Len(vertices) = 0 THEN 0
    ELSE vertices[1][k] + Soma(Tail(vertices), k)

(***************************************************************************)
(* round(x, 4) of an area given in mm2, in units of 0.0001 m2 (100 mm2):   *)
(* to the nearest unit, a half going to the even unit.                     *)
(***************************************************************************)
Arredondar_Truncado(valor, unidade) == valor \div unidade

Arredondar(valor, unidade) ==
    LET q == valor \div unidade
        r == valor % unidade
    IN  IF 2 * r < unidade THEN q
        ELSE IF 2 * r > unidade THEN q + 1
        ELSE IF q % 2 = 0 THEN q ELSE q + 1

MaiorFace_PrimeiraFace(largura, altura, profundidade) == largura * altura

MaiorFace(largura, altura, profundidade) ==
    MaxDe({largura * altura, altura * profundidade, largura * profundidade})

AreaValida_SemMaximo(area) == area >= area_minima

AreaValida(area) == ~(area < area_minima) /\ ~(area > area_maxima)

_processar_componente(nome, vertices, faces) ==
    IF Len(vertices) < 3 THEN NoComponente
    ELSE
    LET largura == Extensao(vertices, 1)
        altura == Extensao(vertices, 2)
        profundidade == Extensao(vertices, 3)
        area == MaiorFace(largura, altura, profundidade)
    IN  IF ~AreaValida(area) THEN NoComponente
        ELSE [nome |-> nome,
              tipo |-> _classificar_por_nome(nome),
              area_m2 |-> Arredondar(area, 100),
              volume_m3 |-> <<largura, altura, profundidade>>,
              dimensoes |-> [largura |-> largura, altura |-> altura,
                             profundidade |-> profundidade],
              vertices |-> vertices,
              faces |-> faces,
              centro_massa |-> [soma |-> <<Soma(vertices, 1), Soma(vertices, 2),
                                           Soma(vertices, 3)>>,
                                n |-> Len(vertices)],
              num_vertices |-> Len(vertices),
              num_faces |-> Len(faces),
              classificacao_origem |-> "basica"]

(***************************************************************************)
(* _analisar_obj.  The loop state is the locals of the function, plus      *)
(* chamadas, the calls of _processar_componente made so far.  objeto_atual *)
(* is "" where the source has None: the source only tests its truth, and   *)
(* an object name is never empty, since the stripped line starts with the  *)
(* marker and a space.                                                     *)
(***************************************************************************)
EstadoInicialObj ==
    [componentes |-> <<>>, vertices_globais |-> <<>>, objeto_atual |-> "",
     vertices_objeto |-> <<>>, faces_objeto |-> <<>>, chamadas |-> <<>>]

Chamada(nome, vertices) == [nome |-> nome, vertices |-> vertices]

Anexar_NoInicio(componentes, c) ==
    IF c = NoComponente THEN componentes ELSE <<c>> \o componentes

\* `if componente: componentes.append(componente)`
Anexar(componentes, c) ==
    IF c = NoComponente THEN componentes ELSE Append(componentes, c)

FinalizarObjeto_SemNome(e) ==
    IF e.vertices_objeto # <<>>
    THEN [e EXCEPT
            !.componentes =
                Anexar(@, _processar_componente(e.objeto_atual,
                              e.vertices_objeto, e.faces_objeto)),
            !.chamadas =
                Append(@, Chamada(e.objeto_atual, e.vertices_objeto))]
    ELSE e

FinalizarObjeto(e) ==
    IF e.objeto_atual # "" /\ e.vertices_objeto # <<>>
    THEN [e EXCEPT
            !.componentes =
                Anexar(@, _processar_componente(e.objeto_atual,
                              e.vertices_objeto, e.faces_objeto)),
            !.chamadas =
                Append(@, Chamada(e.objeto_atual, e.vertices_objeto))]
    ELSE e

EhVertice(linha) == linha.t = "v" /\ Len(linha.coords) >= 1

EhMarcador(linha) == linha.t \in {"o", "g"} /\ linha.resto # ""

EhFace(linha) == linha.t = "f" /\ linha.resto # ""

LerLinha_SemEsvaziar(e, linha) ==
    IF EhVertice(linha)
    THEN IF Len(linha.coords) >= 3
         THEN LET vertice == SubSeq(linha.coords, 1, 3)
              IN  [e EXCEPT !.vertices_globais = Append(@, vertice),
                            !.vertices_objeto = Append(@, vertice)]
         ELSE e
    ELSE IF EhMarcador(linha)
    THEN LET f == FinalizarObjeto(e)
         IN  [f EXCEPT
                !.objeto_atual =
                    IF linha.resto # "" THEN linha.resto
                    ELSE "Objeto_" \o ToString(Len(f.componentes) + 1),
                !.vertices_objeto =
                    IF e.objeto_atual = "" THEN e.vertices_objeto ELSE <<>>,
                !.faces_objeto = <<>>]
    ELSE IF EhFace(linha)
    THEN [e EXCEPT !.faces_objeto = Append(@, linha.resto)]
    ELSE e

\* one pass of the loop over the lines
LerLinha(e, linha) ==
    IF EhVertice(linha)
    THEN IF Len(linha.coords) >= 3
         THEN LET vertice == SubSeq(linha.coords, 1, 3)
              IN  [e EXCEPT !.vertices_globais = Append(@, vertice),
                            !.vertices_objeto = Append(@, vertice)]
         ELSE e
    ELSE IF EhMarcador(linha)
    THEN LET f == FinalizarObjeto(e)
         IN  [f EXCEPT
                !.objeto_atual =
                    IF linha.resto # "" THEN linha.resto
                    ELSE "Objeto_" \o ToString(Len(f.componentes) + 1),
                !.vertices_objeto = <<>>,
                !.faces_objeto = <<>>]
    ELSE IF EhFace(linha)
    THEN [e EXCEPT !.faces_objeto = Append(@, linha.resto)]
    ELSE e

RECURSIVE LerLinhas(_, _)
LerLinhas(e, linhas) ==
    IF Len(linhas) = 0 THEN e
    ELSE LerLinhas(LerLinha(e, linhas[1]), Tail(linhas))

(***************************************************************************)
(* nome_arquivo.replace('.obj', ''): every occurrence removed.             *)
(***************************************************************************)
RECURSIVE SemObj(_)
SemObj(s) ==
    IF Len(s) = 0 THEN ""
    ELSE IF StartsWith(s, ".obj") THEN SemObj(SubSeq(s, 5, Len(s)))
    ELSE SubSeq(s, 1, 1) \o SemObj(SubSeq(s, 2, Len(s)))

SemComponentes_SemGrupos(e) == e.chamadas = <<>>

SemComponentes(e) == e.componentes = <<>>

ArquivoInteiro(e, nome_arquivo) ==
    IF SemComponentes(e) /\ e.vertices_globais # <<>>
    THEN [e EXCEPT
            !.componentes =
                Anexar(@, _processar_componente(SemObj(nome_arquivo),
                              e.vertices_globais, <<>>)),
            !.chamadas =
                Append(@, Chamada(SemObj(nome_arquivo), e.vertices_globais))]
    ELSE e

EstadoFinalObj(conteudo, nome_arquivo) ==
    ArquivoInteiro(FinalizarObjeto(LerLinhas(EstadoInicialObj, conteudo)),
                   nome_arquivo)

RECURSIVE SomaDasAreas(_)
SomaDasAreas(componentes) ==
    IF Len(componentes) = 0 THEN 0
    ELSE componentes[1].area_m2 + SomaDasAreas(Tail(componentes))

Extraido(componentes, formato, nome_arquivo) ==
    [componentes |-> componentes,
     total_componentes |-> Len(componentes),
     area_total_m2 |-> SomaDasAreas(componentes),
     formato |-> formato,
     arquivo |-> nome_arquivo]

_analisar_obj(conteudo, nome_arquivo) ==
    Extraido(EstadoFinalObj(conteudo, nome_arquivo).componentes, "obj",
             nome_arquivo)

(***************************************************************************)
(* _analisar_dae.  re.findall with one capture group returns the captured  *)
(* texts, here the id of each geometry element, and the float_array is     *)
(* then searched in that text.  An id holds no double quote, which the     *)
(* float_array pattern needs.                                              *)
(***************************************************************************)
Geometrias(conteudo) ==
    LET blocos == SelectSeq(conteudo, LAMBDA linha : linha.t = "geometry")
    IN  [i \in 1..Len(blocos) |-> blocos[i].id]

TemFloatArray(geometria) ==
    /\ Contains(geometria, "<float_array")
    /\ Contains(geometria, "count=\"")
    /\ Contains(geometria, "</float_array>")

FloatsDe(conteudo, geometria) ==
    LET bloco == CHOOSE linha \in {conteudo[i] : i \in 1..Len(conteudo)} :
                     linha.t = "geometry" /\ Contains(Texto(linha), geometria)
    IN  bloco.floats

RECURSIVE Agrupar(_)
Agrupar(coords) ==
    IF Len(coords) < 3 THEN <<>>
    ELSE <<SubSeq(coords, 1, 3)>> \o Agrupar(SubSeq(coords, 4, Len(coords)))

RECURSIVE LerGeometrias(_, _, _, _)
LerGeometrias(e, conteudo, geometrias, i) ==
    IF i > Len(geometrias) THEN e
    ELSE IF TemFloatArray(geometrias[i])
            /\ Agrupar(FloatsDe(conteudo, geometrias[i])) # <<>>
    THEN LET vertices == Agrupar(FloatsDe(conteudo, geometrias[i]))
             nome_componente == "Geometria_" \o ToString(i)
         IN  LerGeometrias(
                 [e EXCEPT
                    !.componentes =
                        Anexar(@, _processar_componente(nome_componente,
                                      vertices, <<>>)),
                    !.chamadas = Append(@, Chamada(nome_componente, vertices))],
                 conteudo, geometrias, i + 1)
    ELSE LerGeometrias(e, conteudo, geometrias, i + 1)

EstadoFinalDae(conteudo) ==
    LerGeometrias(EstadoInicialObj, conteudo, Geometrias(conteudo), 1)

_analisar_dae(conteudo, nome_arquivo) ==
    Extraido(EstadoFinalDae(conteudo).componentes, "dae", nome_arquivo)

(***************************************************************************)
(* _analisar_geometria_basica, and the calls of _processar_componente it   *)
(* makes.                                                                  *)
(***************************************************************************)
_analisar_geometria_basica(conteudo, nome_arquivo) ==
    LET formato == _detectar_formato(nome_arquivo, conteudo)
    IN  IF formato = "obj" THEN _analisar_obj(conteudo, nome_arquivo)
        ELSE IF formato = "dae" THEN _analisar_dae(conteudo, nome_arquivo)
        ELSE [erro |-> "Formato nao suportado: " \o formato,
              componentes |-> <<>>]

ChamadasDeProcessar(conteudo, nome_arquivo) ==
    LET formato == _detectar_formato(nome_arquivo, conteudo)
    IN  IF formato = "obj" THEN EstadoFinalObj(conteudo, nome_arquivo).chamadas
        ELSE IF formato = "dae" THEN EstadoFinalDae(conteudo).chamadas
        ELSE <<>>

(***************************************************************************)
(* The floats of analyze_batch.  A confidence is an IEEE double in the     *)
(* source, and sum(confiancas) / len(confiancas) rounds after every        *)
(* addition and after the division, so the mean of n copies of 0.8 is not  *)
(* always the double 0.8.  A non-negative double is held here as the       *)
(* natural number of its multiples of 2^-Escala, written in base Base,     *)
(* least significant digit first and without leading zeros; every double   *)
(* from 0.0001 up to 2^(Mantissa - 1) is such a multiple.  sum() is the    *)
(* left-to-right sum of doubles.                                           *)
(***************************************************************************)
Mantissa == 53

BitsPorDigito == 12

Base == 2 ^ BitsPorDigito

DigitosDaFracao == 6

Escala == DigitosDaFracao * BitsPorDigito

DigitosDeGuarda == 2

MaxDesvio == 16

Zeros(k) == [i \in 1..k |-> 0]

Normalizar(a) ==
    LET usados == {i \in 1..Len(a) : a[i] # 0}
    IN  IF usados = {} THEN <<>> ELSE SubSeq(a, 1, MaxDe(usados))

Deslocar(a, k) == IF a = <<>> THEN <<>> ELSE Zeros(k) \o a

RECURSIVE DigitosDe(_)
DigitosDe(n) == IF n = 0 THEN <<>> ELSE <<n % Base>> \o DigitosDe(n \div Base)

RECURSIVE InteiroDe(_)
InteiroDe(a) == IF a = <<>> THEN 0 ELSE a[1] + Base * InteiroDe(Tail(a))

RECURSIVE Somar(_, _, _)
Somar(a, b, vai_um) ==
    IF a = <<>> /\ b = <<>> THEN (IF vai_um = 0 THEN <<>> ELSE <<vai_um>>)
    ELSE LET s == (IF a = <<>> THEN 0 ELSE a[1])
                  + (IF b = <<>> THEN 0 ELSE b[1]) + vai_um
         IN  <<s % Base>> \o Somar(IF a = <<>> THEN <<>> ELSE Tail(a),
                                   IF b = <<>> THEN <<>> ELSE Tail(b),
                                   s \div Base)

RECURSIVE Multiplicar(_, _, _)
Multiplicar(a, k, vai) ==
    IF a = <<>> THEN DigitosDe(vai)
    ELSE <<(a[1] * k + vai) % Base>>
         \o Multiplicar(Tail(a), k, (a[1] * k + vai) \div Base)

(***************************************************************************)
(* Long division by a small integer, from the most significant digit down: *)
(* the quotient, with its leading zeros, and the remainder.                *)
(***************************************************************************)
RECURSIVE Dividir(_, _, _, _, _)
Dividir(a, n, i, resto, quociente) ==
    IF i = 0 THEN [q |-> quociente, r |-> resto]
    ELSE Dividir(a, n, i - 1, (resto * Base + a[i]) % n,
                 <<(resto * Base + a[i]) \div n>> \o quociente)

Maior(a, b) ==
    IF Len(a) # Len(b) THEN Len(a) > Len(b)
    ELSE \E i \in 1..Len(a) :
            /\ a[i] > b[i]
            /\ \A j \in (i + 1)..Len(a) : a[j] = b[j]

Bit(a, i) == (a[(i - 1) \div BitsPorDigito + 1]
                 \div 2 ^ ((i - 1) % BitsPorDigito)) % 2

Comprimento(a) ==
    IF a = <<>> THEN 0
    ELSE (Len(a) - 1) * BitsPorDigito
         + CHOOSE k \in 1..BitsPorDigito :
               2 ^ (k - 1) <= a[Len(a)] /\ a[Len(a)] < 2 ^ k

(***************************************************************************)
(* The number with its d lowest bits cleared, and the number 2^d.          *)
(***************************************************************************)
SemBitsBaixos(a, d) ==
    [k \in 1..Len(a) |->
        IF k * BitsPorDigito <= d THEN 0
        ELSE IF (k - 1) * BitsPorDigito >= d THEN a[k]
        ELSE (a[k] \div 2 ^ (d - (k - 1) * BitsPorDigito))
             * 2 ^ (d - (k - 1) * BitsPorDigito)]

UltimaCasa(d) == Zeros(d \div BitsPorDigito) \o <<2 ^ (d % BitsPorDigito)>>

(***************************************************************************)
(* Rounding to the nearest double, a tie to the even one: the number keeps *)
(* its Mantissa leading bits.  resto says that the exact value lies above  *)
(* the digits given.                                                       *)
(***************************************************************************)
Arredondar53_Truncado(a, resto) ==
    IF Comprimento(a) <= Mantissa THEN a
    ELSE SemBitsBaixos(a, Comprimento(a) - Mantissa)

Arredondar53(a, resto) ==
    IF Comprimento(a) <= Mantissa THEN a
    ELSE LET d == Comprimento(a) - Mantissa
             abaixo == resto \/ \E i \in 1..(d - 1) : Bit(a, i) = 1
             sobe == Bit(a, d) = 1 /\ (abaixo \/ Bit(a, d + 1) = 1)
         IN  IF sobe THEN Somar(SemBitsBaixos(a, d), UltimaCasa(d), 0)
             ELSE SemBitsBaixos(a, d)

SomarFloat(x, y) == Arredondar53(Somar(x, y, 0), FALSE)

MultiplicarFloat(x, k) == Arredondar53(Multiplicar(x, k, 0), FALSE)

DividirFloat(x, n) ==
    LET d == Dividir(Deslocar(x, DigitosDeGuarda), n,
                     Len(Deslocar(x, DigitosDeGuarda)), 0, <<>>)
        arredondado == Arredondar53(Normalizar(d.q), d.r # 0)
    IN  IF arredondado = <<>> THEN <<>>
        ELSE SubSeq(arredondado, DigitosDeGuarda + 1, Len(arredondado))

(***************************************************************************)
(* The double of an integer, and the double of a decimal literal of at     *)
(* most four decimals, given in 1/10000.                                   *)
(***************************************************************************)
FloatDeInteiro(n) == Deslocar(DigitosDe(n), DigitosDaFracao)

Float(decimos_de_milesimo) ==
    DividirFloat(FloatDeInteiro(decimos_de_milesimo), Pct(100))

RECURSIVE SomaFloat(_, _)
SomaFloat(valores, acumulado) ==
    IF valores = <<>> THEN acumulado
    ELSE SomaFloat(Tail(valores), SomarFloat(acumulado, valores[1]))

(***************************************************************************)
(* The product of two doubles: the exact product, in multiples of          *)
(* 2^-(2 * Escala), rounded once.  Every product the classifier forms is   *)
(* zero or above 2^-19, so the rounded product is a multiple of 2^-Escala. *)
(***************************************************************************)
RECURSIVE ProdutoExato(_, _)
ProdutoExato(x, y) ==
    IF y = <<>> THEN <<>>
    ELSE Somar(Multiplicar(x, y[1], 0),
               Deslocar(ProdutoExato(x, Tail(y)), 1), 0)

MultiplicarFloats(x, y) ==
    LET arredondado == Arredondar53(Normalizar(ProdutoExato(x, y)), FALSE)
    IN  IF arredondado = <<>> THEN <<>>
        ELSE SubSeq(arredondado, DigitosDaFracao + 1, Len(arredondado))

\* min(a, b) of two doubles
MinFloat(a, b) == IF Maior(a, b) THEN b ELSE a

(***************************************************************************)
(* format(x, ".0f"): the integer nearest to the double, a tie to the even  *)
(* one.                                                                    *)
(***************************************************************************)
InteiroMaisProximo(x) ==
    LET inteiro == IF Len(x) > DigitosDaFracao
                   THEN InteiroDe(SubSeq(x, DigitosDaFracao + 1, Len(x)))
                   ELSE 0
        meio == Len(x) >= DigitosDaFracao /\ Bit(x, Escala) = 1
        abaixo == \E i \in 1..(Escala - 1) :
                      i <= Len(x) * BitsPorDigito /\ Bit(x, i) = 1
    IN  IF meio /\ (abaixo \/ inteiro % 2 = 1) THEN inteiro + 1 ELSE inteiro

(***************************************************************************)
(* The distance from the double y to the double x near it, in units of the *)
(* last place of y.                                                        *)
(***************************************************************************)
Desvio(x, y) ==
    IF x = y THEN 0
    ELSE LET passo(k) == Multiplicar(UltimaCasa(Comprimento(y) - Mantissa),
                                     k, 0)
         IN  CHOOSE k \in (-MaxDesvio)..MaxDesvio :
                 IF k >= 0 THEN Somar(y, passo(k), 0) = x
                 ELSE Somar(x, passo(-k), 0) = y

(***************************************************************************)
(* analyze_batch.  The furniture ratio and the mean area are the exact     *)
(* fraction [num, den]: the quotient of two small integers is correctly    *)
(* rounded, so it compares with a decimal literal as the fraction does,    *)
(* and no decision is taken on an area.  The mean confidence is computed   *)
(* as the source computes it, addition by addition, and reported as the    *)
(* exact fraction together with desvio, the distance of the double         *)
(* computed from the double nearest to that fraction, in units of the last *)
(* place.  tipos_detectados is the dict as the sequence of its items in    *)
(* insertion order.  The texts are the source's without their leading      *)
(* pictograph and without accents.                                         *)
(***************************************************************************)
Fracao(num, den) == [num |-> num, den |-> den]

MaiorQue(q, limite) == q.num > limite * q.den

MenorQue(q, limite) == q.num < limite * q.den

(***************************************************************************)
(* f"{q:.0%}": the fraction in percent, rounded to the nearest integer (a  *)
(* half to the even one).                                                  *)
(***************************************************************************)
Porcento(q) == ToString(Arredondar(q.num, 100 * q.den)) \o "%"

UpperChar(c) ==
    CASE c = "a" -> "A" [] c = "b" -> "B" [] c = "c" -> "C" [] c = "d" -> "D"
      [] c = "e" -> "E" [] c = "f" -> "F" [] c = "g" -> "G" [] c = "h" -> "H"
      [] c = "i" -> "I" [] c = "j" -> "J" [] c = "k" -> "K" [] c = "l" -> "L"
      [] c = "m" -> "M" [] c = "n" -> "N" [] c = "o" -> "O" [] c = "p" -> "P"
      [] c = "q" -> "Q" [] c = "r" -> "R" [] c = "s" -> "S" [] c = "t" -> "T"
      [] c = "u" -> "U" [] c = "v" -> "V" [] c = "w" -> "W" [] c = "x" -> "X"
      [] c = "y" -> "Y" [] c = "z" -> "Z" [] OTHER -> c

EhLetra(c) == UpperChar(c) # c \/ LowerChar(c) # c

(***************************************************************************)
(* str.title(): a letter is uppercased after a non-letter and lowercased   *)
(* after a letter.                                                         *)
(***************************************************************************)
RECURSIVE TitleDe(_, _)
TitleDe(s, depois_de_letra) ==
    IF Len(s) = 0 THEN ""
    ELSE LET c == SubSeq(s, 1, 1)
         IN  (IF depois_de_letra THEN LowerChar(c) ELSE UpperChar(c))
             \o TitleDe(SubSeq(s, 2, Len(s)), EhLetra(c))

Title(s) == TitleDe(s, FALSE)

TipoNoLote(comp) ==
    IF "ia_tipo_detectado" \in DOMAIN comp THEN comp.ia_tipo_detectado
    ELSE IF "tipo" \in DOMAIN comp THEN comp.tipo
    ELSE "indefinido"

TemConfianca(comp) == "ia_confianca" \in DOMAIN comp /\ comp.ia_confianca # 0

\* the double under 'ia_confianca'; a component annotated by hand holds
\* the literal it was given
ConfiancaNoLote(comp) ==
    IF "ia_confianca_float" \in DOMAIN comp THEN comp.ia_confianca_float
    ELSE Float(comp.ia_confianca)

TemArea(comp) ==
    /\ "area_m2" \in DOMAIN comp
    /\ "area_m2" \notin Nulos(comp)
    /\ comp.area_m2 # 0

RECURSIVE Contar(_, _)
Contar(itens, tipo) ==
    IF Len(itens) = 0 THEN <<[tipo |-> tipo, n |-> 1]>>
    ELSE IF itens[1].tipo = tipo
    THEN <<[itens[1] EXCEPT !.n = @ + 1]>> \o Tail(itens)
    ELSE <<itens[1]>> \o Contar(Tail(itens), tipo)

RECURSIVE TiposDetectados(_)
TiposDetectados(componentes) ==
    IF Len(componentes) = 0 THEN <<>>
    ELSE Contar(TiposDetectados(SubSeq(componentes, 1, Len(componentes) - 1)),
                TipoNoLote(componentes[Len(componentes)]))

Ocorrencias(itens, tipo) ==
    LET achados == SelectSeq(itens, LAMBDA item : item.tipo = tipo)
    IN  IF achados = <<>> THEN 0 ELSE achados[1].n

RECURSIVE SomaSeq(_)
SomaSeq(valores) ==
    IF Len(valores) = 0 THEN 0 ELSE valores[1] + SomaSeq(Tail(valores))

Valores(s) == {s[i] : i \in 1..Len(s)}

(***************************************************************************)
(* max(tipos_detectados.items(), key=count)[0]: the first item, in         *)
(* insertion order, with the largest count.                                *)
(***************************************************************************)
TipoMaisComum(itens) ==
    LET i == CHOOSE k \in 1..Len(itens) :
                 /\ \A j \in 1..Len(itens) : itens[j].n <= itens[k].n
                 /\ \A j \in 1..(k - 1) : itens[j].n < itens[k].n
    IN  itens[i].tipo

ContaMarcenaria(componentes) ==
    Len(SelectSeq(componentes,
            LAMBDA comp : TipoNoLote(comp) \notin {"nao_marcenaria",
                                                   "invalido"}))

(***************************************************************************)
(* f"{x:.0%}" of a double: the double times 100, rounded to a double and   *)
(* then to the nearest integer.                                            *)
(***************************************************************************)
PorcentoFloat(x) ==
    ToString(InteiroMaisProximo(MultiplicarFloat(x, 100))) \o "%"

ConfiancaMedia(confiancas) ==
    IF confiancas # <<>>
    THEN DividirFloat(SomaFloat(confiancas, <<>>), Len(confiancas))
    ELSE <<>>

Excelente_MaiorOuIgual(confianca_media) ==
    ~Maior(Float(Pct(80)), confianca_media)

Excelente(confianca_media) == Maior(confianca_media, Float(Pct(80)))

InsightDeConfianca(confianca_media) ==
    IF Excelente(confianca_media)
    THEN "Excelente qualidade: " \o PorcentoFloat(confianca_media)
         \o " de confianca media"
    ELSE IF Maior(confianca_media, Float(Pct(60)))
    THEN "Boa qualidade: " \o PorcentoFloat(confianca_media)
         \o " de confianca media"
    ELSE "Qualidade baixa: apenas " \o PorcentoFloat(confianca_media)
         \o " de confianca media"

BemPreparado_MaiorOuIgual(marcenaria_pct) == ~MenorQue(marcenaria_pct, Pct(90))

BemPreparado(marcenaria_pct) == MaiorQue(marcenaria_pct, Pct(90))

InsightDeMarcenaria(marcenaria_pct) ==
    IF BemPreparado(marcenaria_pct)
    THEN "Arquivo bem preparado: " \o Porcento(marcenaria_pct)
         \o " e marcenaria"
    ELSE IF MaiorQue(marcenaria_pct, Pct(70))
    THEN "Arquivo misto: " \o Porcento(marcenaria_pct) \o " e marcenaria"
    ELSE "Muitos elementos nao-marcenaria: apenas "
         \o Porcento(marcenaria_pct) \o " e marcenaria"

InsightDeTipo(itens) ==
    "Tipo mais comum: " \o Title(TipoMaisComum(itens)) \o " ("
    \o ToString(Ocorrencias(itens, TipoMaisComum(itens))) \o " ocorrencias)"

Recomendacoes(confianca_media, marcenaria_pct, invalidos, diversidade) ==
    (IF Maior(Float(Pct(60)), confianca_media)
     THEN <<"Melhorar preparacao do arquivo 3D",
            "Usar nomes mais descritivos nos objetos">>
     ELSE <<>>)
    \o (IF MenorQue(marcenaria_pct, Pct(80))
        THEN <<"Remover elementos nao-marcenaria do SketchUp",
               "Manter apenas moveis de marcenaria">>
        ELSE <<>>)
    \o (IF invalidos > 0
        THEN <<"Verificar geometrias invalidas",
               "Revisar objetos indefinidos manualmente">>
        ELSE <<>>)
    \o (IF diversidade < 2
        THEN <<"Verificar se todos os moveis foram modelados">>
        ELSE <<>>)

SemEstatisticas == [chave \in {} |-> 0]

analyze_batch(componentes) ==
    IF componentes = <<>>
    THEN [estatisticas |-> SemEstatisticas,
          insights |-> <<"Nenhum componente para analisar">>,
          recomendacoes |-> <<>>]
    ELSE
    LET total_componentes == Len(componentes)
        tipos_detectados == TiposDetectados(componentes)
        com_confianca == SelectSeq(componentes, TemConfianca)
        confiancas == [i \in 1..Len(com_confianca) |->
                          com_confianca[i].ia_confianca]
        com_area == SelectSeq(componentes, TemArea)
        areas == [i \in 1..Len(com_area) |-> com_area[i].area_m2]
        confianca_media ==
            ConfiancaMedia([i \in 1..Len(com_confianca) |->
                               ConfiancaNoLote(com_confianca[i])])
        media_exata ==
            IF confiancas # <<>>
            THEN Fracao(SomaSeq(confiancas), Len(confiancas))
            ELSE Fracao(0, 1)
        area_total == SomaSeq(areas)
        marcenaria == ContaMarcenaria(componentes)
        marcenaria_pct == Fracao(marcenaria * Pct(100), total_componentes)
        estatisticas ==
            [total_componentes |-> total_componentes,
             tipos_detectados |-> tipos_detectados,
             confianca_media |->
                 [num |-> media_exata.num, den |-> media_exata.den,
                  desvio |->
                      Desvio(confianca_media,
                             DividirFloat(FloatDeInteiro(media_exata.num),
                                          Pct(100) * media_exata.den))],
             confianca_minima |->
                 IF confiancas # <<>> THEN MinDe(Valores(confiancas)) ELSE 0,
             confianca_maxima |->
                 IF confiancas # <<>> THEN MaxDe(Valores(confiancas)) ELSE 0,
             area_total_m2 |-> area_total,
             area_media_m2 |-> Fracao(area_total, total_componentes),
             tipo_mais_comum |-> TipoMaisComum(tipos_detectados),
             diversidade_tipos |-> Len(tipos_detectados),
             marcenaria |-> marcenaria,
             nao_marcenaria |-> Ocorrencias(tipos_detectados, "nao_marcenaria"),
             invalidos |-> Ocorrencias(tipos_detectados, "invalido")]
    IN  [estatisticas |-> estatisticas,
         insights |-> <<InsightDeConfianca(confianca_media),
                        InsightDeMarcenaria(marcenaria_pct),
                        InsightDeTipo(tipos_detectados)>>,
         recomendacoes |->
             Recomendacoes(confianca_media, marcenaria_pct,
                           estatisticas.invalidos, Len(tipos_detectados))]

(***************************************************************************)
(* _aplicar_analise_ia.  The loop writes the ia_ keys into the component   *)
(* dicts of resultado_basico themselves, so the list of resultado_basico   *)
(* holds the annotated components afterwards.                              *)
(***************************************************************************)
(***************************************************************************)
(* The doubles of the classifier.  A confidence is a double in the source, *)
(* formed by min(0.9, score * 0.3) or min(0.95, score * 0.15) or written   *)
(* as a literal, multiplied by the weight of its scorer and, when the      *)
(* candidates agree, by 1.3 under the cap 0.95.  The field confianca holds *)
(* the decimal value of that arithmetic and ConfiancaFloat the double the  *)
(* code holds: 3 * 0.3 is 0.8999999999999999 and 0.9 * 0.4 is              *)
(* 0.36000000000000004.  Candidates of different scorers are ordered by    *)
(* their doubles as by their decimal scores, and both stand on the same    *)
(* side of 0.5 and of 0.6.                                                 *)
(***************************************************************************)
ConfiancaSemanticaFloat(score) ==
    MinFloat(Float(Pct(90)), MultiplicarFloat(Float(Pct(30)), score))

ConfiancaDimensionalFloat(score) ==
    MinFloat(Float(Pct(95)), MultiplicarFloat(Float(Pct(15)), score))

\* the double under 'confianca' in the dict a scorer returned
ConfiancaDoScorer(analise) ==
    IF "palavras_encontradas" \in DOMAIN analise
    THEN ConfiancaSemanticaFloat(Len(analise.palavras_encontradas))
    ELSE IF "score_dimensional" \in DOMAIN analise
    THEN ConfiancaDimensionalFloat(analise.score_dimensional)
    ELSE Float(analise.confianca)

PesoDe(origem) ==
    IF origem = "semantica" THEN peso_semantico
    ELSE IF origem = "geometrica" THEN peso_geometrico
    ELSE peso_dimensional

AnaliseDe(detalhes, origem) ==
    IF origem = "semantica" THEN detalhes.semantico
    ELSE IF origem = "geometrica" THEN detalhes.geometrico
    ELSE detalhes.dimensional

\* the double under 'score' in a candidate
ScoreFloat(detalhes, candidato) ==
    MultiplicarFloats(ConfiancaDoScorer(AnaliseDe(detalhes, candidato.origem)),
                      Float(PesoDe(candidato.origem)))

\* the double under 'confianca' in the dict analyze_component returned
ConfiancaFloat(resultado_ia) ==
    IF \/ resultado_ia.tipo_detectado \in NaoCandidato \cup {"erro"}
       \/ "detalhes" \notin DOMAIN resultado_ia
    THEN Float(resultado_ia.confianca)
    ELSE LET d == resultado_ia.detalhes
             candidatos == Candidatos(d.semantico, d.geometrico, d.dimensional)
             melhor_candidato == MaxPorScore(candidatos)
             tipos_detectados == {candidatos[k].tipo : k \in 1..Len(candidatos)}
             confianca_final == ScoreFloat(d, melhor_candidato)
         IN  IF Cardinality(tipos_detectados) = 1
             THEN MinFloat(Float(Pct(95)),
                           MultiplicarFloats(confianca_final, Float(Pct(130))))
             ELSE confianca_final

UsaClassificacaoDaIa_SemLimiar(resultado_ia) ==
    resultado_ia.tipo_detectado \notin {"invalido", "nao_marcenaria", "erro"}

UsaClassificacaoDaIa(resultado_ia) ==
    /\ resultado_ia.confianca > Pct(60)
    /\ resultado_ia.tipo_detectado \notin {"invalido", "nao_marcenaria", "erro"}

Integrar(c, resultado_ia) ==
    (IF UsaClassificacaoDaIa(resultado_ia)
     THEN [tipo |-> resultado_ia.tipo_detectado,
           classificacao_origem |-> "ia"]
     ELSE [classificacao_origem |-> "basica"])
    @@ [ia_tipo_detectado |-> resultado_ia.tipo_detectado,
        ia_confianca |-> resultado_ia.confianca,
        ia_confianca_float |-> ConfiancaFloat(resultado_ia),
        ia_motivo |-> resultado_ia.motivo,
        ia_sugestoes |-> resultado_ia.sugestoes,
        ia_alternativas |-> resultado_ia.alternativas]
    @@ c

Integrados(componentes) ==
    [i \in 1..Len(componentes) |->
        Integrar(componentes[i], analyze_component(componentes[i]))]

Filtrado_Nada(c) == TRUE

Filtrado(c) == c.ia_tipo_detectado # "nao_marcenaria"

(***************************************************************************)
(* sum(c.get('area_m2', 0) ...) raises on an area that is None; the except *)
(* branch then returns resultado_basico with ia_ativa False and erro_ia.   *)
(***************************************************************************)
SomaFalha(componentes) ==
    \E i \in 1..Len(componentes) : "area_m2" \in Nulos(componentes[i])

(***************************************************************************)
(* The running total of sum() is the int 0 until the first float is added. *)
(***************************************************************************)
Acumulador(componentes) ==
    IF "area_m2" \in Nulos(componentes[1]) THEN "int" ELSE "float"

Opcional(r, chave) == IF chave \in DOMAIN r THEN r[chave] ELSE "None"

_aplicar_analise_ia(resultado_basico) ==
    LET componentes == resultado_basico.componentes
        anotados == Integrados(componentes)
        componentes_com_ia == SelectSeq(anotados, Filtrado)
    IN  IF componentes = <<>>
        THEN [ia_ativa |-> TRUE,
              erro |-> "Nenhum componente encontrado para analise"]
             @@ resultado_basico
        ELSE IF componentes_com_ia # <<>> /\ SomaFalha(componentes_com_ia)
        THEN [ia_ativa |-> FALSE,
              erro_ia |-> "Erro na analise de IA: unsupported operand "
                          \o "type(s) for +: '"
                          \o Acumulador(componentes_com_ia)
                          \o "' and 'NoneType'",
              componentes |-> anotados]
             @@ resultado_basico
        ELSE IF componentes_com_ia # <<>>
        THEN LET batch_result == analyze_batch(componentes_com_ia)
             IN  [componentes |-> componentes_com_ia,
                  total_componentes |-> Len(componentes_com_ia),
                  area_total_m2 |-> SomaDasAreas(componentes_com_ia),
                  ia_ativa |-> TRUE,
                  ia_estatisticas |-> batch_result.estatisticas,
                  ia_insights |-> batch_result.insights,
                  ia_recomendacoes |-> batch_result.recomendacoes,
                  formato |-> Opcional(resultado_basico, "formato"),
                  arquivo |-> Opcional(resultado_basico, "arquivo")]
        ELSE [componentes |-> <<>>,
              total_componentes |-> 0,
              area_total_m2 |-> 0,
              ia_ativa |-> TRUE,
              erro |-> "Nenhum componente de marcenaria detectado pela IA",
              ia_estatisticas |-> SemEstatisticas,
              ia_insights |->
                  <<"Arquivo contem apenas elementos nao-marcenaria">>,
              ia_recomendacoes |->
                  <<"Remover paredes, pisos e eletrodomesticos do SketchUp",
                    "Manter apenas moveis de marcenaria",
                    "Usar nomes descritivos nos objetos">>]

(***************************************************************************)
(* analisar_arquivo_3d_com_ia and analisar_arquivo_3d.  A result with a    *)
(* true 'erro' is returned as it is; every error text of the source is not *)
(* empty.                                                                  *)
(***************************************************************************)
TemErro_Nunca(r) == FALSE

TemErro(r) == "erro" \in DOMAIN r /\ r.erro # ""

analisar_arquivo_3d_com_ia(conteudo, nome_arquivo, ai_analyzer) ==
    LET resultado_basico == _analisar_geometria_basica(conteudo, nome_arquivo)
    IN  IF TemErro(resultado_basico) THEN resultado_basico
        ELSE IF ai_analyzer THEN _aplicar_analise_ia(resultado_basico)
        ELSE [ia_ativa |-> FALSE] @@ resultado_basico

analisar_arquivo_3d(conteudo, nome_arquivo) ==
    _analisar_geometria_basica(conteudo, nome_arquivo)

ChamadasDeAnalyze(resultado_basico) ==
    IF TemErro(resultado_basico) THEN <<>> ELSE resultado_basico.componentes

(***************************************************************************)
(* Inputs.  A generated name is up to MaxTokens fragments of Vocabulario   *)
(* joined by "_".  Generated names meet a few dimension cases, and a few   *)
(* fixed names meet the whole grid of dimensions and areas.                *)
(***************************************************************************)
MaxTokens == 2

Vocabulario ==
    {"Armario", "Superior", "Cozinha", "gaveta", "Drawer", "inferior",
     "Parede", "shelf", "Wardrobe_Closet", "Balcao_Base"}

RECURSIVE NomesCom(_)
NomesCom(n) ==
    IF n = 0 THEN {""}
    ELSE IF n = 1 THEN Vocabulario
    ELSE {a \o "_" \o b : a \in NomesCom(n - 1), b \in Vocabulario}

Nomes == UNION {NomesCom(n) : n \in 0..MaxTokens}

NomesFixos ==
    {"Armario_Superior_Cozinha", "Objeto_1", "Parede_Sala",
     "Armario_Guarda_Roupa_Closet_Superior"}

Larguras == {0, 300, 400, 800, 1000, 1001, 2000, 5000}

Alturas == {-10, 40, 59, 60, 700, 999, 1000, 2100}

Profundidades == {0, 20, 29, 30, 350, 600, 6000}

Areas == {0, 100, 5600, 100000, 100001, 120000}

SemDimensoes == [chave \in {} |-> 0]

Dim(l, a, p) == [largura |-> l, altura |-> a, profundidade |-> p]

Dimensoes ==
    {SemDimensoes, Dim(200000, 2500, 1000)}
    \cup {Dim(l, a, p) : l \in Larguras, a \in Alturas, p \in Profundidades}

CasosDimensionais ==
    { [dimensoes |-> SemDimensoes, area_m2 |-> 5600],
      [dimensoes |-> Dim(800, 700, 350), area_m2 |-> 5600],
      [dimensoes |-> Dim(800, 700, 350), area_m2 |-> 0],
      [dimensoes |-> Dim(5000, 5000, 5000), area_m2 |-> 90000],
      [dimensoes |-> Dim(500, 40, 300), area_m2 |-> 1500],
      [dimensoes |-> Dim(2000, 1000, 6000), area_m2 |-> 120000],
      [dimensoes |-> Dim(200000, 2500, 1000), area_m2 |-> 120000] }

Componentes ==
    {[nome |-> n, dimensoes |-> d.dimensoes, area_m2 |-> d.area_m2] :
        n \in Nomes, d \in CasosDimensionais}
    \cup [nome : NomesFixos, dimensoes : Dimensoes, area_m2 : Areas]

NoResultado == [tipo_detectado |-> "None"]

NoArquivo == [nome_arquivo |-> "None"]

NoRetorno == [pendente |-> TRUE]

Init ==
    /\ componente \in Componentes
    /\ resultado = NoResultado
    /\ arquivo = NoArquivo
    /\ basico = NoRetorno
    /\ retorno = NoRetorno
    /\ grupos = <<>>
    /\ classificados = <<>>
    /\ lote = <<>>
    /\ relatorio = NoRetorno
    /\ analisador = AIAnalyzer
    /\ chamadas = <<>>

AnalyzeComponent ==
    /\ resultado = NoResultado
    /\ resultado' = analyze_component(componente)
    /\ UNCHANGED <<componente, arquivo, basico, retorno, grupos,
                   classificados, lote, relatorio,
                   analisador, chamadas>>

Next == AnalyzeComponent

Spec == Init /\ [][Next]_vars

(***************************************************************************)
(* Uploaded files.  A file is leading lines followed by up to MaxGrupos    *)
(* groups, each a marker line, the vertex lines of a shape and a face      *)
(* line.  Every such file meets the name "cozinha.obj"; a few files of     *)
(* each dialect meet every file name of NomesDeArquivo.                    *)
(***************************************************************************)
MaxGrupos == 2

V(x, y, z) == [t |-> "v", coords |-> <<x, y, z>>]

Outra(s) == [t |-> "", resto |-> s]

Marcador(t, nome) == [t |-> t, resto |-> nome]

Caixa(l, a, p) == <<V(0, 0, 0), V(l, 0, 0), V(0, a, 0), V(0, 0, p)>>

DoisPontos == <<V(0, 0, 0), V(800, 700, 350)>>

TresPontosNoMeio ==
    <<V(0, 0, 0), [t |-> "v", coords |-> <<800, 700>>], V(800, 700, 350),
      [t |-> "v", coords |-> <<0, 700, 350, 1>>]>>

GruposPossiveis ==
    { <<Marcador("o", "Armario_Superior")>> \o Caixa(800, 700, 350)
          \o <<[t |-> "f", resto |-> "1 2 3"]>>,
      <<Marcador("g", "Armario_Superior")>> \o DoisPontos,
      <<Marcador("o", "Parede_Sala")>> \o Caixa(3000, 2500, 150),
      <<Marcador("o", "Piso")>> \o DoisPontos,
      <<Marcador("o", "Tampo")>> \o Caixa(1000, 1000, 0),
      <<Marcador("g", "Painel")>> \o Caixa(123, 457, 18),
      <<Marcador("o", "Balcao_Base")>> \o Caixa(5001, 5000, 600),
      <<Marcador("o", "Porta")>> \o Caixa(5000, 5000, 18),
      <<Marcador("o", "Gaveta")>> \o Caixa(99, 101, 50),
      <<Marcador("o", "Caixa_Drawer")>> \o Caixa(100, 450, 500),
      <<Marcador("o", "Plywood_Shelf")>> \o TresPontosNoMeio,
      <<Marcador("o", "Caixa_Grande")>> \o Caixa(4000, 3000, 100),
      <<Marcador("g", "Armario_Guarda_Roupa_Closet_Superior")>>
          \o Caixa(800, 700, 350),
      <<Marcador("o", "")>> \o Caixa(800, 700, 350) }

Prefixos ==
    { <<>>,
      <<Outra("# exported from SketchUp")>>,
      <<V(0, 0, 0), V(600, 0, 0)>>,
      Caixa(600, 2000, 500) }

RECURSIVE LinhasDeGrupos(_)
LinhasDeGrupos(n) ==
    IF n = 0 THEN {<<>>}
    ELSE {gs \o g : gs \in LinhasDeGrupos(n - 1), g \in GruposPossiveis}

ConteudosObj(n) ==
    {p \o gs : p \in Prefixos, gs \in UNION {LinhasDeGrupos(k) : k \in 0..n}}

Geometria(id, floats) == [t |-> "geometry", id |-> id, floats |-> floats]

FloatsDaCaixa == <<0, 0, 0, 800, 0, 0, 0, 700, 0, 0, 0, 350>>

ConteudosDae ==
    { <<Outra("<COLLADA>"), Geometria("mesh1", FloatsDaCaixa),
        Outra("</COLLADA>")>>,
      <<Outra("<COLLADA>"), Geometria("mesh1", <<0, 0, 0, 800, 700, 350>>),
        Geometria("mesh2", FloatsDaCaixa \o <<7>>), Outra("</COLLADA>")>>,
      <<Geometria("Armario-mesh", FloatsDaCaixa)>>,
      <<Outra("<COLLADA>"), Outra("</COLLADA>")>> }

CemCaracteres ==
    "# 3456789012345678901234567890123456789012345678901234567890"
    \o "1234567890123456789012345678901234567890"

ConteudosDiversos ==
    { <<>>,
      <<Outra("hello world")>>,
      <<Outra("solid peca"), Outra("facet normal 0 0 1"),
        Outra("endsolid peca")>>,
      <<Outra("# facet normal")>> \o Caixa(800, 700, 350),
      <<Outra("ply"), Outra("format ascii 1.0"), Outra("element vertex 3")>>,
      <<Outra(CemCaracteres), Marcador("o", "Plywood_Shelf")>>
          \o Caixa(800, 700, 350),
      <<Outra("# v 1 2 3"), Outra("x")>>,
      <<[t |-> "v", coords |-> <<>>], Outra("x")>> }

NomesDeArquivo ==
    {"cozinha.obj", "Cozinha.OBJ", "cena.dae", "cena.collada", "peca.stl",
     "nuvem.ply", "modelo.txt", "planta", "sala.obj.skp"}

Arquivos ==
    [nome_arquivo : {"cozinha.obj"}, conteudo : ConteudosObj(MaxGrupos)]
    \cup [nome_arquivo : NomesDeArquivo,
          conteudo : ConteudosObj(1) \cup ConteudosDae \cup ConteudosDiversos]

(***************************************************************************)
(* The file pipeline: one upload, analysed once, by analisar_arquivo_3d or *)
(* by analisar_arquivo_3d_com_ia with or without an ai_analyzer.           *)
(***************************************************************************)
InitArquivo ==
    /\ arquivo \in Arquivos
    /\ retorno = NoRetorno
    /\ grupos = <<>>
    /\ classificados = <<>>
    /\ componente = [nome |-> "", dimensoes |-> SemDimensoes, area_m2 |-> 0]
    /\ resultado = NoResultado
    /\ basico = NoRetorno
    /\ lote = <<>>
    /\ relatorio = NoRetorno
    /\ analisador = AIAnalyzer
    /\ chamadas = <<>>

AnalisarArquivo3d ==
    /\ arquivo # NoArquivo
    /\ retorno = NoRetorno
    /\ retorno' = analisar_arquivo_3d(arquivo.conteudo, arquivo.nome_arquivo)
    /\ grupos' = ChamadasDeProcessar(arquivo.conteudo, arquivo.nome_arquivo)
    /\ classificados' = <<>>
    /\ UNCHANGED <<componente, resultado, arquivo, basico, lote, relatorio,
                   analisador, chamadas>>

AnalisarArquivo3dComIa ==
    /\ arquivo # NoArquivo
    /\ retorno = NoRetorno
    /\ \E ai_analyzer \in BOOLEAN :
          /\ retorno' = analisar_arquivo_3d_com_ia(arquivo.conteudo,
                            arquivo.nome_arquivo, ai_analyzer)
          /\ classificados' =
                IF ai_analyzer
                THEN ChamadasDeAnalyze(_analisar_geometria_basica(
                         arquivo.conteudo, arquivo.nome_arquivo))
                ELSE <<>>
    /\ grupos' = ChamadasDeProcessar(arquivo.conteudo, arquivo.nome_arquivo)
    /\ UNCHANGED <<componente, resultado, arquivo, basico, lote, relatorio,
                   analisador, chamadas>>

NextArquivo == AnalisarArquivo3d \/ AnalisarArquivo3dComIa

SpecArquivo == InitArquivo /\ [][NextArquivo]_vars

(***************************************************************************)
(* _aplicar_analise_ia on its own: a resultado_basico of up to             *)
(* MaxComponentes components, each an extracted component or one holding   *)
(* None under 'nome' or under 'area_m2', is annotated once.  The component *)
(* dicts are annotated in place, so basico holds them afterwards.          *)
(***************************************************************************)
MaxComponentes == 3

PontosDe(linhas) == [i \in 1..Len(linhas) |-> linhas[i].coords]

ComponentesBasicos ==
    LET armario == _processar_componente("Armario_Superior",
                       PontosDe(Caixa(800, 700, 350)), <<>>)
        parede == _processar_componente("Parede_Sala",
                      PontosDe(Caixa(3000, 2500, 150)), <<>>)
        tampo == _processar_componente("Tampo",
                     PontosDe(Caixa(1000, 1000, 0)), <<>>)
    IN  {armario, parede, tampo,
         [nulos |-> {"nome"}] @@ armario,
         [nulos |-> {"area_m2"}] @@ armario}

RECURSIVE ListasDe(_, _)
ListasDe(S, n) ==
    IF n = 0 THEN {<<>>}
    ELSE ListasDe(S, n - 1)
         \cup {Append(l, c) : l \in {m \in ListasDe(S, n - 1) : Len(m) = n - 1},
                              c \in S}

ResultadosBasicos ==
    {[componentes |-> cs,
      total_componentes |-> Len(cs),
      area_total_m2 |-> SomaDasAreas(cs),
      formato |-> "obj",
      arquivo |-> "cozinha.obj"] : cs \in ListasDe(ComponentesBasicos,
                                                   MaxComponentes)}

InitIA ==
    /\ basico \in ResultadosBasicos
    /\ retorno = NoRetorno
    /\ classificados = <<>>
    /\ grupos = <<>>
    /\ arquivo = NoArquivo
    /\ componente = [nome |-> "", dimensoes |-> SemDimensoes, area_m2 |-> 0]
    /\ resultado = NoResultado
    /\ lote = <<>>
    /\ relatorio = NoRetorno
    /\ analisador = AIAnalyzer
    /\ chamadas = <<>>

AplicarAnaliseIa ==
    /\ basico # NoRetorno
    /\ retorno = NoRetorno
    /\ retorno' = _aplicar_analise_ia(basico)
    /\ classificados' = basico.componentes
    /\ basico' = [basico EXCEPT !.componentes = Integrados(@)]
    /\ UNCHANGED <<componente, resultado, arquivo, grupos, lote, relatorio,
                   analisador, chamadas>>

NextIA == AplicarAnaliseIa

SpecIA == InitIA /\ [][NextIA]_vars

(***************************************************************************)
(* analyze_batch on its own: a batch of up to MaxLote annotated            *)
(* components, some copies of one kind followed by some copies of another. *)
(***************************************************************************)
MaxLote == 10

Anotado(nome, tipo, area_m2, ia_tipo, ia_confianca) ==
    [nome |-> nome, tipo |-> tipo, area_m2 |-> area_m2,
     ia_tipo_detectado |-> ia_tipo, ia_confianca |-> ia_confianca]

TiposDeComponente ==
    { Anotado("Armario_Superior", "armario", 5600, "armario", Pct(80)),
      Anotado("Armario_Inferior", "armario", 4000, "armario", Pct(60)),
      Anotado("Prateleira", "prateleira", 0, "prateleira", Pct(90)),
      Anotado("Parede_Sala", "nao_marcenaria", 75000, "nao_marcenaria",
              Pct(95)),
      Anotado("Piso", "nao_marcenaria", 90000, "nao_marcenaria", Pct(80)),
      Anotado("Tampo", "armario", 10000, "invalido", 0),
      [nome |-> "Geladeira", tipo |-> "nao_marcenaria", area_m2 |-> 12000,
       ia_tipo_detectado |-> "nao_marcenaria"],
      [nome |-> "Balcao_Base", tipo |-> "balcao", area_m2 |-> 4800],
      [nome |-> "Sem_Tipo", area_m2 |-> 4800] }

Copias(c, n) == [i \in 1..n |-> c]

Lotes ==
    {Copias(a, n) \o Copias(b, m) :
        a \in TiposDeComponente, b \in TiposDeComponente,
        n \in 0..MaxLote, m \in 0..MaxLote}

InitLote ==
    /\ lote \in {l \in Lotes : Len(l) <= MaxLote}
    /\ relatorio = NoRetorno
    /\ retorno = NoRetorno
    /\ basico = NoRetorno
    /\ classificados = <<>>
    /\ grupos = <<>>
    /\ arquivo = NoArquivo
    /\ componente = [nome |-> "", dimensoes |-> SemDimensoes, area_m2 |-> 0]
    /\ resultado = NoResultado
    /\ analisador = AIAnalyzer
    /\ chamadas = <<>>

AnalyzeBatch ==
    /\ relatorio = NoRetorno
    /\ relatorio' = analyze_batch(lote)
    /\ UNCHANGED <<componente, resultado, arquivo, basico, retorno, grupos,
                   classificados, lote,
                   analisador, chamadas>>

NextLote == AnalyzeBatch

SpecLote == InitLote /\ [][NextLote]_vars

(***************************************************************************)
(* One pass of the loop body of _aplicar_analise_ia.  ai_analyzer is an    *)
(* argument of the stage, so resultado_ia is whatever dict the object that *)
(* was passed returns: a type of the classifier and a confidence on either *)
(* side of the 0.6 of the override test.  The body writes into the         *)
(* component dict itself; classificados keeps the component as it was      *)
(* handed to analyze_component.                                            *)
(***************************************************************************)
TiposDaIa ==
    {"armario", "gaveteiro", "indefinido", "invalido", "nao_marcenaria",
     "erro"}

ConfiancasDaIa == {0, Pct(50), Pct(60), Pct(60) + 1, Pct(95)}

ResultadosDaIa ==
    {[tipo_detectado |-> t, confianca |-> k, motivo |-> "Semantica",
      sugestoes |-> <<>>, alternativas |-> <<>>] :
        t \in TiposDaIa, k \in ConfiancasDaIa}

InitIntegrar ==
    /\ componente \in ComponentesBasicos
    /\ resultado \in ResultadosDaIa
    /\ classificados = <<>>
    /\ basico = NoRetorno
    /\ retorno = NoRetorno
    /\ grupos = <<>>
    /\ arquivo = NoArquivo
    /\ lote = <<>>
    /\ relatorio = NoRetorno
    /\ analisador = AIAnalyzer
    /\ chamadas = <<>>

IntegrarResultado ==
    /\ classificados = <<>>
    /\ classificados' = <<componente>>
    /\ componente' = Integrar(componente, resultado)
    /\ UNCHANGED <<resultado, arquivo, basico, retorno, grupos, lote,
                   relatorio, analisador, chamadas>>

NextIntegrar == IntegrarResultado

SpecIntegrar == InitIntegrar /\ [][NextIntegrar]_vars

(***************************************************************************)
(* A sequence of up to MaxChamadas calls of analyze_component on one       *)
(* AIAnalyzer object, any component after any other.  The body reads the   *)
(* component with .get and the two tables of the object in its loops; it   *)
(* assigns to locals only, so the object and the component dict are after  *)
(* the call what they were before it, and the dict returned is built from  *)
(* the component alone.  A call is logged with the component as passed, the*)
(* component dict after the return and the dict returned.                  *)
(***************************************************************************)
MaxChamadas == 3

ComponentesDeChamada ==
    { [nome |-> "Armario_Superior", dimensoes |-> Dim(800, 700, 350),
       area_m2 |-> 5600],
      [nome |-> "Armario_Guarda_Roupa_Closet_Superior",
       dimensoes |-> Dim(800, 2100, 350), area_m2 |-> 16800],
      [nome |-> "Parede_Sala", dimensoes |-> Dim(2000, 1000, 6000),
       area_m2 |-> 120000],
      [nome |-> "Objeto_1", dimensoes |-> SemDimensoes, area_m2 |-> 0],
      [nome |-> "Objeto_1", dimensoes |-> Dim(5000, 5000, 5000),
       area_m2 |-> 90000],
      [nome |-> "", dimensoes |-> SemDimensoes, area_m2 |-> 0,
       nulos |-> {"nome"}] }

\* self after a call: no statement of the body assigns to self
AnalisadorApos(self, c) == self

\* the component dict after a call: the body only reads it
ComponenteApos(c) == c

ResultadoDaChamada_ComContador(c, anteriores) ==
    [analyze_component(c) EXCEPT
        !.confianca = Min(Pct(95), @ + Len(anteriores))]

\* the dict returned by a call made after the calls anteriores
ResultadoDaChamada(c, anteriores) == analyze_component(c)

InitChamadas ==
    /\ analisador = AIAnalyzer
    /\ chamadas = <<>>
    /\ componente = [nome |-> "", dimensoes |-> SemDimensoes, area_m2 |-> 0]
    /\ resultado = NoResultado
    /\ arquivo = NoArquivo
    /\ basico = NoRetorno
    /\ retorno = NoRetorno
    /\ grupos = <<>>
    /\ classificados = <<>>
    /\ lote = <<>>
    /\ relatorio = NoRetorno

Chamar ==
    /\ Len(chamadas) < MaxChamadas
    /\ \E c \in ComponentesDeChamada :
           /\ chamadas' = Append(chamadas,
                              [componente |-> c,
                               depois |-> ComponenteApos(c),
                               resultado |-> ResultadoDaChamada(c, chamadas)])
           /\ analisador' = AnalisadorApos(analisador, c)
    /\ UNCHANGED <<componente, resultado, arquivo, basico, retorno, grupos,
                   classificados, lote, relatorio>>

NextChamadas == Chamar

SpecChamadas == InitChamadas /\ [][NextChamadas]_vars

(***************************************************************************)
(* Properties.                                                             *)
(***************************************************************************)
Feito == resultado.tipo_detectado # "None"

Sem == resultado.detalhes.semantico

Geo == resultado.detalhes.geometrico

Dimen == resultado.detalhes.dimensional

TiposMoveis == {knowledge_base[i].tipo : i \in 1..Len(knowledge_base)}

\* the lowercased name contains some non-furniture keyword
TemPalavraNaoMarcenaria(nome) ==
    LET minusculo == Lower(nome)
    IN  \E i \in 1..Len(elementos_nao_marcenaria) :
            \E k \in 1..Len(elementos_nao_marcenaria[i].palavras) :
                Contains(minusculo, elementos_nao_marcenaria[i].palavras[k])

NoIntervalo(c) == 0 <= c /\ c <= Pct(95)

\* C1: the confidence of the semantic, the geometric and the dimensional
\* scorer and of the fused result of analyze_component is in [0, 0.95].
C1_ConfiancaNoIntervalo ==
    Feito => /\ NoIntervalo(Sem.confianca)
             /\ NoIntervalo(Geo.confianca)
             /\ NoIntervalo(Dimen.confianca)
             /\ NoIntervalo(resultado.confianca)

\* a name with four keywords of one type, where min(0.9, .) cuts 1.2 down
C1_Witness ==
    /\ Feito
    /\ Sem.tipo = "armario"
    /\ Len(Sem.palavras_encontradas) = 4
    /\ Sem.confianca = Pct(90)
    /\ Geo.confianca > 0
    /\ Dimen.confianca > 0
    /\ resultado.confianca > 0

\* C2: the name contains a non-furniture keyword exactly when the semantic
\* result is non_furniture with confidence > 0.8, and then the fused result
\* is non_furniture with confidence 0.95 and no alternatives, whatever the
\* geometric and dimensional results are.
C2_NaoMarcenariaVence ==
    Feito =>
        /\ TemPalavraNaoMarcenaria(componente.nome)
               <=> (Sem.tipo = "nao_marcenaria" /\ Sem.confianca > Pct(80))
        /\ TemPalavraNaoMarcenaria(componente.nome)
               => /\ resultado.tipo_detectado = "nao_marcenaria"
                  /\ resultado.confianca = Pct(95)
                  /\ resultado.confianca = Sem.confianca
                  /\ resultado.alternativas = << >>

\* a wall whose geometry is invalid
C2_Witness ==
    /\ Feito
    /\ TemPalavraNaoMarcenaria(componente.nome)
    /\ Geo.tipo = "invalido"
    /\ resultado.tipo_detectado = "nao_marcenaria"

\* the three scorer results in the fixed order semantic, geometric,
\* dimensional, and their weights in tenths
Analises == <<Sem, Geo, Dimen>>

PesoEmDecimos == <<4, 3, 3>>

Votante(k) == Analises[k].tipo \notin {"nao_marcenaria", "invalido", "indefinido"}

Ponderado(k) == Analises[k].confianca * PesoEmDecimos[k]

\* the weighted-vote path of the fusion is the one taken
CaminhoDoVoto ==
    /\ Feito
    /\ ~(Sem.tipo = "nao_marcenaria" /\ Sem.confianca > Pct(80))
    /\ Geo.tipo # "invalido"
    /\ \E k \in 1..3 : Votante(k)

\* C3: when the three scorers select the same furniture type with
\* confidences c1, c2, c3, the fused confidence is
\* min(0.95, (0.4*c1 + 0.3*c2 + 0.3*c3) * 1.3).
C3_BonusSomaPonderada ==
    (Feito /\ Sem.tipo \in TiposMoveis /\ Geo.tipo = Sem.tipo
           /\ Dimen.tipo = Sem.tipo)
        => resultado.confianca * 1000 =
               Min(Pct(95) * 1000,
                   (Ponderado(1) + Ponderado(2) + Ponderado(3)) * 130)

\* C4: in the weighted-vote path the final type is the type of the voter
\* with the maximum confidence*weight, the earliest of semantic, geometric,
\* dimensional winning among equal scores.
C4_VencedorDoVoto ==
    CaminhoDoVoto =>
        \E k \in 1..3 :
            /\ Votante(k)
            /\ \A j \in 1..3 : Votante(j) => Ponderado(j) <= Ponderado(k)
            /\ \A j \in 1..(k - 1) : Votante(j) => Ponderado(j) < Ponderado(k)
            /\ resultado.tipo_detectado = Analises[k].tipo

\* semantic 0.3 ties with geometric 0.4 on another type, and semantic wins
C4_Witness ==
    /\ CaminhoDoVoto
    /\ Votante(1) /\ Votante(2) /\ Votante(3)
    /\ Sem.confianca = Pct(30)
    /\ Geo.confianca = Pct(40)
    /\ Sem.tipo # Geo.tipo
    /\ Ponderado(3) < Ponderado(1)
    /\ resultado.tipo_detectado = Sem.tipo

\* C5: the geometric result is invalid exactly when the dimensions are
\* missing or the area or a dimension is not positive, and then, unless the
\* semantic result is a high-confidence non_furniture, the fused result is
\* invalid with confidence 0.0 and no alternatives.
C5_InvalidoAntesDoVoto ==
    Feito =>
        /\ Geo.tipo = "invalido"
               <=> \/ DOMAIN componente.dimensoes = {}
                   \/ componente.area_m2 <= 0
                   \/ componente.dimensoes.largura <= 0
                   \/ componente.dimensoes.altura <= 0
                   \/ componente.dimensoes.profundidade <= 0
        /\ Geo.tipo = "invalido" => Geo.confianca = 0
        /\ (/\ Geo.tipo = "invalido"
            /\ ~(Sem.tipo = "nao_marcenaria" /\ Sem.confianca > Pct(80)))
               => /\ resultado.tipo_detectado = "invalido"
                  /\ resultado.confianca = 0
                  /\ resultado.alternativas = << >>

\* invalid geometry although the other two scorers name furniture
C5_Witness ==
    /\ Feito
    /\ Geo.tipo = "invalido"
    /\ Sem.tipo \in TiposMoveis /\ Sem.confianca > 0
    /\ Dimen.tipo \in TiposMoveis /\ Dimen.confianca > 0
    /\ resultado.tipo_detectado = "invalido"

\* C6: the alternatives are the distinct voter types other than the
\* winner: the winner is not among them and none occurs twice.
C6_AlternativasDistintas ==
    CaminhoDoVoto =>
        LET alt == resultado.alternativas
        IN  /\ \A i \in 1..Len(alt) : alt[i] # resultado.tipo_detectado
            /\ \A i, j \in 1..Len(alt) : i # j => alt[i] # alt[j]
            /\ {alt[i] : i \in 1..Len(alt)} =
                   {Analises[k].tipo : k \in {v \in 1..3 : Votante(v)}}
                       \ {resultado.tipo_detectado}

Larg == Get(componente.dimensoes, "largura")

Alt == Get(componente.dimensoes, "altura")

Prof == Get(componente.dimensoes, "profundidade")

Positivo ==
    /\ DOMAIN componente.dimensoes # {}
    /\ Larg > 0 /\ Alt > 0 /\ Prof > 0
    /\ componente.area_m2 > 0

\* the six geometric rules in their numbered order
RegrasGeometricas ==
    << [vale |-> Alt < 60, tipo |-> "prateleira", confianca |-> 8500],
       [vale |-> Prof < 30, tipo |-> "porta", confianca |-> 8000],
       [vale |-> 2 * Alt > 5 * Larg, tipo |-> "despenseiro",
        confianca |-> 7500],
       [vale |-> Alt < 1000 /\ Larg > 1000, tipo |-> "balcao",
        confianca |-> 7000],
       [vale |-> componente.area_m2 > 100000, tipo |-> "nao_marcenaria",
        confianca |-> 9000],
       [vale |-> TRUE, tipo |-> "armario", confianca |-> 4000] >>

\* C7: for positive width, height, depth and area the geometric scorer
\* returns the outcome of the lowest-numbered matching rule, which is a
\* function of the dimensions and the area alone.
C7_PrimeiraRegraGeometrica ==
    (Feito /\ Positivo) =>
        \E k \in 1..6 :
            /\ RegrasGeometricas[k].vale
            /\ \A j \in 1..(k - 1) : ~RegrasGeometricas[j].vale
            /\ Geo.tipo = RegrasGeometricas[k].tipo
            /\ Geo.confianca = RegrasGeometricas[k].confianca

\* rules 1 and 2 both match, and the result is the shelf
C7_Witness ==
    /\ Feito /\ Positivo
    /\ Alt < 60 /\ Prof < 30
    /\ Geo.tipo = "prateleira"
    /\ Geo.confianca = 8500

\* the number of keywords of knowledge-base entry i in the lowercased name
Contagem(minusculo, i) ==
    Cardinality({k \in 1..Len(knowledge_base[i].palavras_chave) :
                    Contains(minusculo, knowledge_base[i].palavras_chave[k])})

OrdemDosTipos ==
    <<"armario", "despenseiro", "balcao", "gaveteiro", "prateleira", "porta">>

\* C8: for a name without non-furniture keyword the semantic scorer
\* returns the type with the strictly highest keyword count, the earlier
\* type of the enumeration order on equal counts, with confidence
\* min(0.9, count * 0.3), and indefinite with confidence 0.1 when every
\* count is 0.
C8_MelhorContagem ==
    (Feito /\ ~TemPalavraNaoMarcenaria(componente.nome)) =>
        LET minusculo == Lower(componente.nome)
            n == [i \in 1..6 |-> Contagem(minusculo, i)]
        IN  IF \A i \in 1..6 : n[i] = 0
            THEN Sem.tipo = "indefinido" /\ Sem.confianca = 1000
            ELSE \E i \in 1..6 :
                    /\ \A j \in 1..6 : n[j] <= n[i]
                    /\ \A j \in 1..(i - 1) : n[j] < n[i]
                    /\ Sem.tipo = OrdemDosTipos[i]
                    /\ knowledge_base[i].tipo = OrdemDosTipos[i]
                    /\ Sem.confianca = Min(9000, n[i] * 3000)

\* "inferior" is a keyword of cabinet and of counter: the cabinet is kept
C8_Witness ==
    /\ Feito
    /\ ~TemPalavraNaoMarcenaria(componente.nome)
    /\ Contagem(Lower(componente.nome), 1) = 1
    /\ Contagem(Lower(componente.nome), 3) = 1
    /\ \A i \in 1..6 : Contagem(Lower(componente.nome), i) <= 1
    /\ Sem.tipo = "armario"
    /\ Sem.confianca = 3000

\* Scenario A with an area for which the default geometric rule can fire
CenarioA ==
    /\ Feito
    /\ componente.nome = "Armario_Superior_Cozinha"
    /\ componente.dimensoes = Dim(800, 700, 350)
    /\ componente.area_m2 > 0 /\ componente.area_m2 <= 100000

\* C9 as claimed: in Scenario A the semantic scorer matches exactly one
\* keyword ("armario") and returns cabinet 0.3, the geometric default rule
\* returns cabinet 0.4, the dimensional scorer returns cabinet with a
\* higher score, and the fused type is cabinet.
C9_CenarioA_UmaPalavra ==
    CenarioA =>
        /\ Sem.tipo = "armario" /\ Sem.confianca = 3000
        /\ Sem.palavras_encontradas = <<"armario">>
        /\ Geo.tipo = "armario" /\ Geo.confianca = 4000
        /\ Dimen.tipo = "armario"
        /\ Dimen.confianca > Sem.confianca /\ Dimen.confianca > Geo.confianca
        /\ resultado.tipo_detectado = "armario"

\* C9 amended: in Scenario A the semantic scorer matches exactly two
\* keywords ("armario", "superior") and returns cabinet 0.6; the rest is
\* as claimed.
C9_CenarioA_DuasPalavras ==
    CenarioA =>
        /\ Sem.tipo = "armario" /\ Sem.confianca = 6000
        /\ Sem.palavras_encontradas = <<"armario", "superior">>
        /\ Geo.tipo = "armario" /\ Geo.confianca = 4000
        /\ Dimen.tipo = "armario"
        /\ Dimen.confianca > Sem.confianca /\ Dimen.confianca > Geo.confianca
        /\ resultado.tipo_detectado = "armario"

\* Scenario A with the area of the source's own example, 0.56 m2
C9_Witness ==
    /\ CenarioA
    /\ componente.area_m2 = 5600
    /\ Dimen.score_dimensional = 6
    /\ resultado.tipo_detectado = "armario"

\* the range checks of knowledge-base entry i that the component passes
Passa(i) ==
    LET d == knowledge_base[i]
    IN  (IF d.largura[1] <= Larg /\ Larg <= d.largura[2] THEN {1} ELSE {})
        \cup (IF d.altura[1] <= Alt /\ Alt <= d.altura[2] THEN {2} ELSE {})
        \cup (IF d.profundidade[1] <= Prof /\ Prof <= d.profundidade[2]
              THEN {3} ELSE {})
        \cup (IF d.area_tipica[1] <= componente.area_m2
                 /\ componente.area_m2 <= d.area_tipica[2]
              THEN {4} ELSE {})
        \cup (IF Alt > 0 /\ Larg > 0
                 /\ d.altura_largura[1] * Larg <= 1000 * Alt
                 /\ 1000 * Alt <= d.altura_largura[2] * Larg
              THEN {5} ELSE {})
        \cup (IF Prof > 0 /\ Larg > 0
                 /\ d.profundidade_largura[1] * Larg <= 1000 * Prof
                 /\ 1000 * Prof <= d.profundidade_largura[2] * Larg
              THEN {6} ELSE {})

Pontos(i) == Cardinality(Passa(i))

\* what C10 says of the dimensional result
PontuacaoDimensional ==
    IF \A i \in 1..6 : Pontos(i) = 0
    THEN Dimen.tipo = "indefinido" /\ Dimen.confianca = 2000
    ELSE \E i \in 1..6 :
            /\ \A j \in 1..6 : Pontos(j) <= Pontos(i)
            /\ \A j \in 1..(i - 1) : Pontos(j) < Pontos(i)
            /\ Pontos(i) \in 1..6
            /\ Dimen.tipo = OrdemDosTipos[i]
            /\ Dimen.score_dimensional = Pontos(i)
            /\ Dimen.confianca = Min(9500, Pontos(i) * 1500)

\* C10 as claimed: for every component the dimensional scorer returns the
\* type with the strictly highest count of the six inclusive range checks
\* with confidence min(0.95, score * 0.15), and indefinite with confidence
\* 0.2 when no type scores above 0.
C10_PontuacaoTodoComponente == Feito => PontuacaoDimensional

\* C10 amended: that holds for every component that carries dimensions; a
\* component without dimensions gets indefinite with confidence 0.0.
C10_PontuacaoComDimensoes ==
    Feito =>
        IF DOMAIN componente.dimensoes = {}
        THEN Dimen.tipo = "indefinido" /\ Dimen.confianca = 0
        ELSE PontuacaoDimensional

\* two types share the highest score, with a dimension on a range bound
C10_Witness ==
    /\ Feito
    /\ DOMAIN componente.dimensoes # {}
    /\ Larg = 300
    /\ \E i, j \in 1..6 :
           /\ i < j
           /\ Pontos(i) = Pontos(j)
           /\ 1 \in Passa(i)
           /\ \A m \in 1..6 : Pontos(m) <= Pontos(i)
           /\ \A m \in 1..(i - 1) : Pontos(m) < Pontos(i)
           /\ Dimen.tipo = OrdemDosTipos[i]


(***************************************************************************)
(* Properties of the file pipeline.                                        *)
(***************************************************************************)
Analisado == retorno # NoRetorno

Emitidos == retorno.componentes

IndicesEmitidos == IF Analisado THEN 1..Len(Emitidos) ELSE {}

Lado(c, k) == Extensao(c.vertices, k)

FaceMaxima(c) ==
    MaxDe({Lado(c, 1) * Lado(c, 2), Lado(c, 2) * Lado(c, 3),
           Lado(c, 1) * Lado(c, 3)})

AreaNaFaixa(c) == 100 <= c.area_m2 /\ c.area_m2 <= 250000

Rejeitados ==
    {i \in 1..Len(grupos) :
        _processar_componente(grupos[i].nome, grupos[i].vertices, <<>>)
            = NoComponente}

(***************************************************************************)
(* C11 as stated: every component of a returned list has an area_m2 equal  *)
(* to the largest face of its bounding box and within [0.01, 25.0] m2.     *)
(* (area_m2 is in units of 100 mm2.)                                       *)
(***************************************************************************)
C11_AreaIgualMaiorFace ==
    \A i \in IndicesEmitidos :
        /\ Emitidos[i].area_m2 * 100 = FaceMaxima(Emitidos[i])
        /\ AreaNaFaixa(Emitidos[i])

(***************************************************************************)
(* C11 amended: every component of a returned list has an area_m2 equal to *)
(* the largest face of its bounding box rounded to 4 decimal places (at    *)
(* most half a unit away from it) and within [0.01, 25.0] m2, and every    *)
(* call of _processar_componente returned None or such a component.        *)
(***************************************************************************)
C11_AreaArredondadaNaFaixa ==
    /\ \A i \in IndicesEmitidos :
          LET d == Emitidos[i].area_m2 * 100 - FaceMaxima(Emitidos[i])
          IN  /\ -50 <= d /\ d <= 50
              /\ AreaNaFaixa(Emitidos[i])
    /\ \A i \in 1..Len(grupos) :
          LET c == _processar_componente(grupos[i].nome, grupos[i].vertices,
                                         <<>>)
          IN  c = NoComponente
              \/ (c.area_m2 = Arredondar(FaceMaxima(c), 100) /\ AreaNaFaixa(c))

C11_Witness ==
    /\ Analisado
    /\ Rejeitados # {}
    /\ \E i \in IndicesEmitidos :
          Emitidos[i].area_m2 * 100 # FaceMaxima(Emitidos[i])

(***************************************************************************)
(* C12: every component of a returned list has width, height and depth     *)
(* all strictly greater than 0 (a group whose bounding box has no extent   *)
(* along an axis is dropped even when its largest face is within range).   *)
(***************************************************************************)
C12_DimensoesPositivas ==
    \A i \in IndicesEmitidos :
        /\ Emitidos[i].dimensoes.largura > 0
        /\ Emitidos[i].dimensoes.altura > 0
        /\ Emitidos[i].dimensoes.profundidade > 0

(***************************************************************************)
(* The groups an OBJ text declares: one per object or group line, with the *)
(* points of the vertex lines that follow it up to the next such line.     *)
(***************************************************************************)
RECURSIVE Declarados(_, _)
Declarados(linhas, gs) ==
    IF Len(linhas) = 0 THEN gs
    ELSE IF EhMarcador(linhas[1])
    THEN Declarados(Tail(linhas),
                    Append(gs, [nome |-> linhas[1].resto, vertices |-> <<>>]))
    ELSE IF EhVertice(linhas[1]) /\ Len(linhas[1].coords) >= 3 /\ gs # <<>>
    THEN Declarados(Tail(linhas),
                    [gs EXCEPT ![Len(gs)].vertices =
                                   Append(@, SubSeq(linhas[1].coords, 1, 3))])
    ELSE Declarados(Tail(linhas), gs)

GruposDoArquivo == Declarados(arquivo.conteudo, <<>>)

GruposPequenos ==
    {k \in 1..Len(GruposDoArquivo) : Len(GruposDoArquivo[k].vertices) < 3}

DeGrupoCompleto(c) ==
    \E k \in 1..Len(GruposDoArquivo) :
        /\ Len(GruposDoArquivo[k].vertices) >= 3
        /\ c.nome = GruposDoArquivo[k].nome
        /\ c.vertices = GruposDoArquivo[k].vertices

(***************************************************************************)
(* C13: in an OBJ file that declares a group of fewer than 3 points, no    *)
(* component of the returned list and no component handed to the           *)
(* classifier is built from the points of such a group: each one is        *)
(* exactly a declared group of at least 3 points.                          *)
(***************************************************************************)
C13_GrupoPequenoRejeitado ==
    (Analisado /\ GruposPequenos # {}) =>
        /\ \A i \in IndicesEmitidos : DeGrupoCompleto(Emitidos[i])
        /\ \A i \in 1..Len(classificados) : DeGrupoCompleto(classificados[i])

Blocos == SelectSeq(arquivo.conteudo, LAMBDA linha : linha.t = "geometry")

FormatoRetornado == IF "formato" \in DOMAIN retorno THEN retorno.formato ELSE ""

(***************************************************************************)
(* C14: in a DAE result, every geometry block whose float array groups     *)
(* into at least 3 points with a bounding box in range has its component   *)
(* in the returned list, named by the block's sequential index and built   *)
(* from those points.                                                      *)
(***************************************************************************)
C14_GeometriaViraComponente ==
    (Analisado /\ FormatoRetornado = "dae") =>
        \A k \in 1..Len(Blocos) :
            LET pontos == Agrupar(Blocos[k].floats)
                nome == "Geometria_" \o ToString(k)
            IN  (/\ Len(pontos) >= 3
                 /\ _processar_componente(nome, pontos, <<>>) # NoComponente)
                => \E i \in IndicesEmitidos :
                      /\ Emitidos[i].nome = nome
                      /\ Emitidos[i].vertices = pontos

SemMarcador ==
    \A k \in 1..Len(arquivo.conteudo) : ~EhMarcador(arquivo.conteudo[k])

LinhasDeVertice ==
    SelectSeq(arquivo.conteudo,
              LAMBDA linha : linha.t = "v" /\ Len(linha.coords) >= 3)

TodosOsVertices ==
    [k \in 1..Len(LinhasDeVertice) |-> SubSeq(LinhasDeVertice[k].coords, 1, 3)]

IaAtiva == "ia_ativa" \in DOMAIN retorno /\ retorno.ia_ativa

(***************************************************************************)
(* C15: for an OBJ file with no object or group line, the returned list    *)
(* has at most one component; that component is named from the file name   *)
(* and built from all the vertices of the file in file order; the only     *)
(* group extracted is that one; and without the classifier's filter the    *)
(* component is present whenever the extractor does not reject it.         *)
(***************************************************************************)
C15_ArquivoSemGrupos ==
    (Analisado /\ FormatoRetornado = "obj" /\ SemMarcador) =>
        /\ Len(Emitidos) <= 1
        /\ \A i \in IndicesEmitidos :
              /\ Emitidos[i].nome = SemObj(arquivo.nome_arquivo)
              /\ Emitidos[i].vertices = TodosOsVertices
        /\ Len(grupos) <= 1
        /\ \A i \in 1..Len(grupos) : grupos[i].vertices = TodosOsVertices
        /\ (/\ ~IaAtiva
            /\ _processar_componente("", TodosOsVertices, <<>>) # NoComponente)
           => Len(Emitidos) = 1

C15_Witness ==
    /\ Analisado
    /\ FormatoRetornado = "obj"
    /\ SemMarcador
    /\ arquivo.nome_arquivo = "cozinha.obj"
    /\ Len(Emitidos) = 1
    /\ Emitidos[1].nome = "cozinha"
    /\ Len(Emitidos[1].vertices) = 6

TextoDoArquivo == ConteudoTexto(arquivo.conteudo)

ExtensaoDesconhecida ==
    UltimoSegmento(Lower(arquivo.nome_arquivo))
        \notin {"obj", "dae", "collada", "stl", "ply"}

TemRegistroDeVertice ==
    \E k \in 1..Len(arquivo.conteudo) :
        arquivo.conteudo[k].t = "v" /\ Len(arquivo.conteudo[k].coords) >= 1

TemMarcaDeContainer ==
    Contains(TextoDoArquivo, "COLLADA") \/ Contains(TextoDoArquivo, "<geometry")

TemMarcaDeSolido ==
    StartsWith(TextoDoArquivo, "solid ")
    \/ Contains(TextoDoArquivo, "facet normal")

TemPlyNosPrimeirosCem ==
    Contains(Lower(SubSeq(TextoDoArquivo, 1, Min(100, Len(TextoDoArquivo)))),
             "ply")

LidoComoObj ==
    /\ _detectar_formato(arquivo.nome_arquivo, arquivo.conteudo) = "obj"
    /\ IaAtiva \/ FormatoRetornado = "obj"
    /\ grupos = EstadoFinalObj(arquivo.conteudo, arquivo.nome_arquivo).chamadas

(***************************************************************************)
(* C16 as stated: a file whose extension is not a known one, with a vertex *)
(* line and with neither a container marker nor a solid/facet marker, is   *)
(* detected and parsed as OBJ.                                             *)
(***************************************************************************)
C16_VerticeImplicaObj ==
    (/\ Analisado
     /\ ExtensaoDesconhecida
     /\ TemRegistroDeVertice
     /\ ~TemMarcaDeContainer
     /\ ~TemMarcaDeSolido) => LidoComoObj

(***************************************************************************)
(* C16 amended: such a file is detected and parsed as OBJ when, moreover,  *)
(* the text "ply" in any letter case is not within its first 100           *)
(* characters.                                                             *)
(***************************************************************************)
C16_VerticeSemPlyImplicaObj ==
    (/\ Analisado
     /\ ExtensaoDesconhecida
     /\ TemRegistroDeVertice
     /\ ~TemMarcaDeContainer
     /\ ~TemMarcaDeSolido
     /\ ~TemPlyNosPrimeirosCem) => LidoComoObj

C16_Witness ==
    /\ Analisado
    /\ arquivo.nome_arquivo = "modelo.txt"
    /\ TemRegistroDeVertice
    /\ ~TemMarcaDeContainer
    /\ ~TemMarcaDeSolido
    /\ ~TemPlyNosPrimeirosCem
    /\ Contains(Lower(TextoDoArquivo), "ply")
    /\ FormatoRetornado = "obj"
    /\ Len(Emitidos) = 1

FormatoDetectado == _detectar_formato(arquivo.nome_arquivo, arquivo.conteudo)

Anotados == basico.componentes

ComFalha(c) == "nome" \in Nulos(c) \/ "area_m2" \in Nulos(c)

Sentinela(c) ==
    /\ c.ia_tipo_detectado = "erro"
    /\ c.ia_confianca = 0
    /\ c.ia_sugestoes = <<"Verificar dados do componente">>
    /\ c.ia_alternativas = <<>>
    /\ StartsWith(c.ia_motivo, "Erro na analise: ")
    /\ Len(c.ia_motivo) > Len("Erro na analise: ")

Mantidos ==
    SelectSeq(Anotados, LAMBDA c : c.ia_tipo_detectado # "nao_marcenaria")

(***************************************************************************)
(* C18: after _aplicar_analise_ia every component of the list was handed   *)
(* to analyze_component and carries its annotation; a component whose      *)
(* scoring faults carries the sentinel (type 'erro', confidence 0.0, a     *)
(* motive naming the fault), every other component carries the very        *)
(* classification analyze_component gives it alone, and a result in which  *)
(* some scoring faulted has no 'erro' key and still lists every component  *)
(* that is not non-furniture.                                              *)
(***************************************************************************)
C18_FalhaViraSentinela ==
    Analisado =>
        /\ Len(classificados) = Len(Anotados)
        /\ \A i \in 1..Len(Anotados) :
              /\ "ia_tipo_detectado" \in DOMAIN Anotados[i]
              /\ ComFalha(Anotados[i]) => Sentinela(Anotados[i])
              /\ ~ComFalha(Anotados[i]) =>
                    /\ Anotados[i].ia_tipo_detectado # "erro"
                    /\ Anotados[i].ia_tipo_detectado =
                          analyze_component(classificados[i]).tipo_detectado
                    /\ Anotados[i].ia_confianca =
                          analyze_component(classificados[i]).confianca
        /\ (\E i \in 1..Len(Anotados) : ComFalha(Anotados[i])) =>
              /\ "erro" \notin DOMAIN retorno
              /\ retorno.componentes =
                    IF retorno.ia_ativa THEN Mantidos ELSE Anotados

C18_Witness ==
    /\ Analisado
    /\ Len(Anotados) = 3
    /\ "nome" \in Nulos(Anotados[1])
    /\ Anotados[1].ia_tipo_detectado = "erro"
    /\ Anotados[2].ia_tipo_detectado = "nao_marcenaria"
    /\ Anotados[3].ia_tipo_detectado = "armario"
    /\ retorno.ia_ativa
    /\ "erro" \notin DOMAIN retorno
    /\ Len(retorno.componentes) = 2
    /\ retorno.ia_estatisticas.total_componentes = 2

TodosNaoMarcenaria ==
    /\ Analisado
    /\ classificados # <<>>
    /\ \A i \in 1..Len(classificados) :
          analyze_component(classificados[i]).tipo_detectado = "nao_marcenaria"

LoteVazioExplicado ==
    /\ retorno.componentes = <<>>
    /\ retorno.total_componentes = 0
    /\ retorno.area_total_m2 = 0
    /\ retorno.ia_ativa
    /\ retorno.ia_estatisticas = SemEstatisticas
    /\ retorno.ia_insights =
          <<"Arquivo contem apenas elementos nao-marcenaria">>
    /\ Len(retorno.ia_recomendacoes) = 3

(***************************************************************************)
(* C19 as stated: when every extracted component is classified             *)
(* non-furniture, the pipeline returns an empty component list with count  *)
(* 0 and area 0, an explanatory insight and recommendations, and no 'erro' *)
(* key.                                                                    *)
(***************************************************************************)
C19_LoteVazioSemErro ==
    TodosNaoMarcenaria =>
        /\ LoteVazioExplicado
        /\ "erro" \notin DOMAIN retorno

(***************************************************************************)
(* C19 amended: in that case the pipeline returns the empty list, count 0, *)
(* area 0, the insight and the recommendations together with an 'erro' key *)
(* saying that no furniture component was detected.                        *)
(***************************************************************************)
C19_LoteVazioComErro ==
    TodosNaoMarcenaria =>
        /\ LoteVazioExplicado
        /\ "erro" \in DOMAIN retorno
        /\ retorno.erro = "Nenhum componente de marcenaria detectado pela IA"

C19_Witness ==
    /\ TodosNaoMarcenaria
    /\ Len(classificados) = 2
    /\ Len(grupos) = 2
    /\ retorno.componentes = <<>>
    /\ TemErro(retorno)

(***************************************************************************)
(* Properties of analyze_batch on its own.                                 *)
(***************************************************************************)
Relatado == "insights" \in DOMAIN relatorio

DoTipo(tipo) == {i \in 1..Len(lote) : TipoNoLote(lote[i]) = tipo}

NoveDeDez ==
    /\ Relatado
    /\ Len(lote) = 10
    /\ Cardinality(DoTipo("armario")) = 9
    /\ Cardinality(DoTipo("nao_marcenaria")) = 1

InsightBemPreparado ==
    StartsWith(relatorio.insights[2], "Arquivo bem preparado: ")

(***************************************************************************)
(* C20 as stated: for a batch of 10 components, 9 of type 'armario' and 1  *)
(* 'nao_marcenaria', analyze_batch counts 9 furniture components of 10     *)
(* (ratio 0.9) and emits the 'Arquivo bem preparado' insight.              *)
(***************************************************************************)
C20_NoveDeDezBemPreparado ==
    NoveDeDez =>
        /\ relatorio.estatisticas.marcenaria = 9
        /\ relatorio.estatisticas.total_componentes = 10
        /\ InsightBemPreparado

(***************************************************************************)
(* C20 amended: for that batch analyze_batch counts 9 furniture components *)
(* of 10 and emits the 'Arquivo misto: 90%' insight; for every non-empty   *)
(* batch the 'Arquivo bem preparado' insight is emitted exactly when the   *)
(* furniture ratio is strictly above 0.9.                                  *)
(***************************************************************************)
C20_NoveDeDezMisto ==
    /\ NoveDeDez =>
          /\ relatorio.estatisticas.marcenaria = 9
          /\ relatorio.estatisticas.total_componentes = 10
          /\ relatorio.insights[2] = "Arquivo misto: 90% e marcenaria"
    /\ (Relatado /\ lote # <<>>) =>
          (InsightBemPreparado <=>
              10 * relatorio.estatisticas.marcenaria
                  > 9 * relatorio.estatisticas.total_componentes)

C20_Witness ==
    /\ NoveDeDez
    /\ lote[1].nome = "Armario_Superior"
    /\ lote[10].nome = "Parede_Sala"
    /\ relatorio.insights[2] = "Arquivo misto: 90% e marcenaria"
    /\ relatorio.estatisticas.nao_marcenaria = 1

InsightsDeQualidade ==
    {"Excelente qualidade: ", "Boa qualidade: ", "Qualidade baixa: apenas "}

InsightsDeMarcenaria ==
    {"Arquivo bem preparado: ", "Arquivo misto: ",
     "Muitos elementos nao-marcenaria: apenas "}

ComPrefixo(prefixos) ==
    {i \in 1..Len(relatorio.insights) :
        \E p \in prefixos : StartsWith(relatorio.insights[i], p)}

(***************************************************************************)
(* The tier of a fraction against two limits given in 1/10000, by strict   *)
(* greater-than; acima breaks the tie at the upper limit.                  *)
(***************************************************************************)
Faixa(q, alto, baixo, acima, nomes) ==
    IF MaiorQue(q, alto) \/ (q.num = alto * q.den /\ acima) THEN nomes[1]
    ELSE IF MaiorQue(q, baixo) THEN nomes[2]
    ELSE nomes[3]

UmInsightDeCada ==
    /\ ComPrefixo(InsightsDeQualidade) = {1}
    /\ ComPrefixo(InsightsDeMarcenaria) = {2}
    /\ StartsWith(relatorio.insights[2],
           Faixa(Fracao(Pct(100) * relatorio.estatisticas.marcenaria,
                        relatorio.estatisticas.total_componentes),
                 Pct(90), Pct(70), FALSE,
                 <<"Arquivo bem preparado: ", "Arquivo misto: ",
                   "Muitos elementos nao-marcenaria: apenas ">>))

QualidadePelaMedia(acima) ==
    StartsWith(relatorio.insights[1],
        Faixa(relatorio.estatisticas.confianca_media, Pct(80), Pct(60), acima,
              <<"Excelente qualidade: ", "Boa qualidade: ",
                "Qualidade baixa: apenas ">>))

(***************************************************************************)
(* C21: for every non-empty batch analyze_batch emits exactly one quality  *)
(* insight and exactly one furniture-ratio insight, chosen by strict       *)
(* greater-than: mean confidence > 0.8 excellent, else > 0.6 good, else    *)
(* low; furniture ratio > 0.9 well prepared, else > 0.7 mixed, else mostly *)
(* non-furniture.  A batch whose confidences have mean exactly 0.8 gets    *)
(* the good tier.                                                          *)
(***************************************************************************)
C21_LimiaresEstritos ==
    (Relatado /\ lote # <<>>) =>
        /\ UmInsightDeCada
        /\ QualidadePelaMedia(FALSE)

(***************************************************************************)
(* What the source does instead: the quality tier is chosen on the double  *)
(* that sum() / len() computes, so a mean of exactly 0.8 is excellent when *)
(* the rounding of the sum left the double above 0.8.                      *)
(***************************************************************************)
LimiaresSobreOFloat ==
    (Relatado /\ lote # <<>>) =>
        /\ UmInsightDeCada
        /\ QualidadePelaMedia(relatorio.estatisticas.confianca_media.desvio > 0)

ComValorDeConfianca == {i \in 1..Len(lote) : "ia_confianca" \in DOMAIN lote[i]}

ConfiancasDoLote == {lote[i].ia_confianca : i \in ComValorDeConfianca}

RECURSIVE SomaDasConfiancas(_)
SomaDasConfiancas(indices) ==
    IF indices = {} THEN 0
    ELSE LET i == CHOOSE k \in indices : TRUE
         IN  lote[i].ia_confianca + SomaDasConfiancas(indices \ {i})

(***************************************************************************)
(* C22: for every non-empty batch the mean, the minimum and the maximum    *)
(* confidence reported by analyze_batch are taken over all the components  *)
(* that carry a confidence value, those of confidence 0.0 included: a      *)
(* batch holding such a component reports the minimum 0.0 and a mean that  *)
(* counts it.                                                              *)
(***************************************************************************)
C22_ConfiancaZeroConta ==
    (Relatado /\ ComValorDeConfianca # {}) =>
        /\ relatorio.estatisticas.confianca_minima = MinDe(ConfiancasDoLote)
        /\ relatorio.estatisticas.confianca_maxima = MaxDe(ConfiancasDoLote)
        /\ relatorio.estatisticas.confianca_media.num
               * Cardinality(ComValorDeConfianca)
           = SomaDasConfiancas(ComValorDeConfianca)
               * relatorio.estatisticas.confianca_media.den

(***************************************************************************)
(* What the source does instead: the three statistics are taken over the   *)
(* components whose confidence is present and not zero, and are 0 when     *)
(* there is none.                                                          *)
(***************************************************************************)
ConfiancaZeroIgnorada ==
    Relatado /\ lote # <<>> =>
        LET contadas == {i \in ComValorDeConfianca : lote[i].ia_confianca # 0}
            valores == {lote[i].ia_confianca : i \in contadas}
        IN  /\ relatorio.estatisticas.confianca_minima =
                  IF contadas = {} THEN 0 ELSE MinDe(valores)
            /\ relatorio.estatisticas.confianca_maxima =
                  IF contadas = {} THEN 0 ELSE MaxDe(valores)
            /\ relatorio.estatisticas.confianca_media.num
                  = SomaDasConfiancas(contadas)
            /\ relatorio.estatisticas.confianca_media.den
                  = IF contadas = {} THEN 1 ELSE Cardinality(contadas)

Taxonomia ==
    {"armario", "despenseiro", "balcao", "gaveteiro", "prateleira", "porta"}

MesmaClassificacao(a, b) ==
    /\ a.tipo_detectado = b.tipo_detectado
    /\ a.confianca = b.confianca
    /\ ConfiancaFloat(a) = ConfiancaFloat(b)
    /\ a.alternativas = b.alternativas

Integrado == classificados # <<>> /\ resultado # NoResultado

C25_SobrescritaExata ==
    Integrado =>
        LET antes == classificados[1]
            depois == componente
            sobrescreve ==
                /\ resultado.confianca > Pct(60)
                /\ resultado.tipo_detectado # "invalido"
                /\ resultado.tipo_detectado # "nao_marcenaria"
                /\ resultado.tipo_detectado # "erro"
        IN  /\ depois.nome = antes.nome
            /\ depois.area_m2 = antes.area_m2
            /\ depois.dimensoes = antes.dimensoes
            /\ depois.ia_tipo_detectado = resultado.tipo_detectado
            /\ depois.ia_confianca = resultado.confianca
            /\ IF sobrescreve
               THEN /\ depois.tipo = resultado.tipo_detectado
                    /\ depois.classificacao_origem = "ia"
               ELSE /\ depois.tipo = antes.tipo
                    /\ depois.classificacao_origem = "basica"

\* a component the lookup called armario, overwritten as gaveteiro at 0.6001
C25_Witness ==
    /\ Integrado
    /\ classificados[1].tipo = "armario"
    /\ resultado.confianca = Pct(60) + 1
    /\ componente.tipo = "gaveteiro"
    /\ componente.classificacao_origem = "ia"

(***************************************************************************)
(* C26: in every record returned without 'erro', the component list keeps  *)
(* the order in which the groups were read from the file (each listed      *)
(* component is built from a later call of _processar_componente than the  *)
(* one before it), total_componentes is the length of the list and         *)
(* area_total_m2 is the sum of the area_m2 of the listed components; with  *)
(* the classifier active the list holds the extracted components that were *)
(* not classified nao_marcenaria, and only those.                          *)
(***************************************************************************)
Sucesso == Analisado /\ "erro" \notin DOMAIN retorno

RECURSIVE AreaDosListados(_)
AreaDosListados(indices) ==
    IF indices = {} THEN 0
    ELSE LET i == CHOOSE i \in indices : TRUE
         IN  Emitidos[i].area_m2 + AreaDosListados(indices \ {i})

NaOrdemDoArquivo ==
    \E f \in [IndicesEmitidos -> 1..Len(grupos)] :
        /\ \A i, j \in IndicesEmitidos : i < j => f[i] < f[j]
        /\ \A i \in IndicesEmitidos :
               /\ Emitidos[i].nome = grupos[f[i]].nome
               /\ Emitidos[i].vertices = grupos[f[i]].vertices

NaoFiltrados ==
    {k \in 1..Len(classificados) :
        analyze_component(classificados[k]).tipo_detectado # "nao_marcenaria"}

C26_ListaOrdenadaEComTotais ==
    Sucesso =>
        /\ NaOrdemDoArquivo
        /\ retorno.total_componentes = Len(Emitidos)
        /\ retorno.area_total_m2 = AreaDosListados(IndicesEmitidos)
        /\ IaAtiva =>
               /\ Len(Emitidos) = Cardinality(NaoFiltrados)
               /\ \A i \in IndicesEmitidos :
                      Emitidos[i].ia_tipo_detectado # "nao_marcenaria"

\* a wall and then a cabinet: the wall is filtered out, and the list, the
\* count and the area are those of the cabinet alone
C26_Witness ==
    /\ Sucesso
    /\ IaAtiva
    /\ Len(classificados) = 2
    /\ classificados[1].nome = "Parede_Sala"
    /\ Len(Emitidos) = 1
    /\ Emitidos[1].nome = classificados[2].nome
    /\ retorno.total_componentes = 1
    /\ retorno.area_total_m2 = classificados[2].area_m2
    /\ retorno.area_total_m2 > 0

(***************************************************************************)
(* The components of the returned list that the weighted vote classified:  *)
(* the vote returns a furniture type and the other paths never do.         *)
(***************************************************************************)
Votados ==
    {i \in IndicesEmitidos :
        IaAtiva /\ Emitidos[i].ia_tipo_detectado \in TiposMoveis}

BaixaConfianca == "Baixa confianca - revisar manualmente"

Contem(s, x) == \E k \in 1..Len(s) : s[k] = x

\* every emitted component keeps the type of the name lookup, with
\* provenance 'basica', and every voted one carries the suggestion
NuncaSobrescreve ==
    /\ \A i \in IndicesEmitidos :
           /\ Emitidos[i].classificacao_origem = "basica"
           /\ Emitidos[i].tipo = _classificar_por_nome(Emitidos[i].nome)
    /\ \A i \in Votados :
           /\ ~Maior(Emitidos[i].ia_confianca_float, Float(Pct(60)))
           /\ Maior(Float(Pct(50)), Emitidos[i].ia_confianca_float)
           /\ Contem(Emitidos[i].ia_sugestoes, BaixaConfianca)

(***************************************************************************)
(* C27 as stated: the confidence of a weighted-vote result never exceeds   *)
(* 0.468, no emitted component is overwritten by the classifier, and every *)
(* weighted-vote result carries the low-confidence suggestion.             *)
(***************************************************************************)
C27_VotoAte0468 ==
    Analisado =>
        /\ NuncaSobrescreve
        /\ \A i \in Votados :
               ~Maior(Emitidos[i].ia_confianca_float, Float(4680))

(***************************************************************************)
(* C27 amended: the confidence of a weighted-vote result never exceeds the *)
(* double 0.9 * 0.4 * 1.3, which is 0.4680000000000001, one unit in the    *)
(* last place above the double 0.468; it stays below 0.5 and 0.6, so no    *)
(* emitted component is overwritten by the classifier and every            *)
(* weighted-vote result carries the low-confidence suggestion.             *)
(***************************************************************************)
MaiorVoto ==
    MultiplicarFloats(MultiplicarFloats(Float(Pct(90)), Float(peso_semantico)),
                      Float(Pct(130)))

C27_VotoAteOMaiorProduto ==
    Analisado =>
        /\ NuncaSobrescreve
        /\ \A i \in Votados :
               /\ ~Maior(Emitidos[i].ia_confianca_float, MaiorVoto)
               /\ Emitidos[i].ia_confianca <= 4680
        /\ MaiorVoto = Somar(Float(4680),
                             UltimaCasa(Comprimento(Float(4680)) - Mantissa), 0)

\* a group whose name has four keywords of armario and whose box the
\* geometric and the dimensional scorer call armario too
C27_Witness ==
    /\ Analisado
    /\ \E i \in Votados :
           /\ Emitidos[i].nome = "Armario_Guarda_Roupa_Closet_Superior"
           /\ Emitidos[i].ia_alternativas = <<>>
           /\ Emitidos[i].ia_confianca = 4680
           /\ Emitidos[i].ia_confianca_float = MaiorVoto
           /\ Emitidos[i].classificacao_origem = "basica"
           /\ Contem(Emitidos[i].ia_sugestoes, BaixaConfianca)

(***************************************************************************)
(* C28: a component handed to the classifier is classified nao_marcenaria  *)
(* exactly when its lowercased name holds a non-furniture keyword.  When   *)
(* only the geometric scorer says nao_marcenaria (area above 10 m2), the   *)
(* geometric result is no candidate of the vote, the final type is not     *)
(* nao_marcenaria and the component is in the list the pipeline returns.   *)
(***************************************************************************)
SoPelaGeometria(c) ==
    /\ analyze_component(c).detalhes.geometrico.tipo = "nao_marcenaria"
    /\ ~TemPalavraNaoMarcenaria(c.nome)

SemCandidatoGeometrico(r) ==
    LET candidatos == Candidatos(r.detalhes.semantico, r.detalhes.geometrico,
                                 r.detalhes.dimensional)
    IN  \A j \in 1..Len(candidatos) : candidatos[j].origem # "geometrica"

C28_NaoMarcenariaSoPeloNome ==
    (Analisado /\ IaAtiva) =>
        \A k \in 1..Len(classificados) :
            LET c == classificados[k]
                r == analyze_component(c)
            IN  /\ r.tipo_detectado = "nao_marcenaria"
                       <=> TemPalavraNaoMarcenaria(c.nome)
                /\ SoPelaGeometria(c) =>
                       /\ SemCandidatoGeometrico(r)
                       /\ \E i \in IndicesEmitidos :
                              /\ Emitidos[i].nome = c.nome
                              /\ Emitidos[i].vertices = c.vertices
                              /\ Emitidos[i].ia_tipo_detectado
                                     = r.tipo_detectado

\* a wall by name and a 12 m2 box with a furniture name: the wall goes, the
\* box stays
C28_Witness ==
    /\ Analisado
    /\ IaAtiva
    /\ Len(classificados) = 2
    /\ classificados[1].nome = "Parede_Sala"
    /\ SoPelaGeometria(classificados[2])
    /\ classificados[2].area_m2 > 100000
    /\ Len(Emitidos) = 1
    /\ Emitidos[1].nome = classificados[2].nome
    /\ Emitidos[1].ia_tipo_detectado \in TiposMoveis

(***************************************************************************)
(* The same on single components of every name, dimension and area: the   *)
(* final type is nao_marcenaria exactly when the name holds a keyword.     *)
(***************************************************************************)
NaoMarcenariaPeloNome ==
    Feito => (resultado.tipo_detectado = "nao_marcenaria"
                  <=> TemPalavraNaoMarcenaria(componente.nome))

(***************************************************************************)
(* C29: in the weighted vote the final confidence is the best weighted     *)
(* score times 1.3 (under the cap 0.95) when all the scorers that          *)
(* contribute a candidate name one type, a single contributing scorer      *)
(* included, and the best weighted score itself when two candidates name   *)
(* different types.                                                        *)
(***************************************************************************)
Votantes == {k \in 1..3 : Votante(k)}

MelhorPonderado == MaxDe({Ponderado(k) : k \in Votantes})

UmSoTipo == \A j, k \in Votantes : Analises[j].tipo = Analises[k].tipo

RECURSIVE AntesDoPrimeiroMarcador(_)
AntesDoPrimeiroMarcador(linhas) ==
    IF Len(linhas) = 0 \/ EhMarcador(linhas[1]) THEN <<>>
    ELSE (IF EhVertice(linhas[1]) /\ Len(linhas[1].coords) >= 3
          THEN <<SubSeq(linhas[1].coords, 1, 3)>> ELSE <<>>)
         \o AntesDoPrimeiroMarcador(Tail(linhas))

VerticesIniciais == AntesDoPrimeiroMarcador(arquivo.conteudo)

GruposComPontos ==
    SelectSeq(GruposDoArquivo, LAMBDA g : g.vertices # <<>>)

AlgumGrupoViraComponente ==
    \E gs \in {GruposComPontos} :
        \E k \in 1..Len(gs) :
            _processar_componente(gs[k].nome, gs[k].vertices, <<>>)
                # NoComponente

RECURSIVE TotalDePontos(_)
TotalDePontos(gs) ==
    IF Len(gs) = 0 THEN 0 ELSE Len(gs[1].vertices) + TotalDePontos(Tail(gs))

(***************************************************************************)
(* C30: when an OBJ file has a group that yields a component, the groups   *)
(* handed to the extractor are the declared groups that have points, in    *)
(* file order, each with exactly the points of the vertex lines between    *)
(* its marker and the next marker or the end of the file; the points of    *)
(* the vertex lines before the first marker are in none of them and in no  *)
(* returned component, though they are in the global list.                 *)
(***************************************************************************)
C30_VerticesIniciaisDescartados ==
    (LidoComoObj /\ AlgumGrupoViraComponente) =>
        \A gs \in {GruposComPontos} :
            /\ Len(grupos) = Len(gs)
            /\ \A k \in 1..Len(grupos) :
                   /\ grupos[k].nome = gs[k].nome
                   /\ grupos[k].vertices = gs[k].vertices
            /\ \A i \in IndicesEmitidos :
                   \E k \in 1..Len(gs) :
                       /\ Emitidos[i].nome = gs[k].nome
                       /\ Emitidos[i].vertices = gs[k].vertices
            /\ TotalDePontos(grupos) + Len(VerticesIniciais)
                   = Len(TodosOsVertices)
            /\ EstadoFinalObj(arquivo.conteudo, arquivo.nome_arquivo)
                   .vertices_globais = TodosOsVertices

\* four leading vertices that would make a component of their own, then two
\* groups that both yield a component
C30_Witness ==
    /\ LidoComoObj
    /\ AlgumGrupoViraComponente
    /\ Len(VerticesIniciais) = 4
    /\ _processar_componente("cozinha", VerticesIniciais, <<>>)
           # NoComponente
    /\ Len(grupos) = 2
    /\ Len(Emitidos) = 2
    /\ Emitidos[1].vertices # Emitidos[2].vertices
    /\ Emitidos[1].num_vertices + Emitidos[2].num_vertices + 4
           = Len(TodosOsVertices)

=============================================================================
